---------------------------- MODULE Spec2Model ----------------------------
(***************************************************************************)
(* OTTY: per-contact one-time-pad store (V1.4 otp_helper.py /              *)
(* otp_manager.py), the messaging client that consumes it (V1.3            *)
(* otp_client_v2.py) and the Bluetooth page exchange (V1.3                 *)
(* otp_bluetooth_share.py).                                                *)
(*                                                                         *)
(* Text is modelled as sequences of ASCII codes, a file as the sequence of *)
(* its lines.  A cipher pad file and a used-pages ledger exist per         *)
(* (device, contact) directory; an absent file and an empty file are both  *)
(* the empty sequence (every reader in the source treats them alike).      *)
(***************************************************************************)
EXTENDS Integers, Sequences, FiniteSets, TLC

(***************************************************************************)
(* Bounds of the model.                                                    *)
(***************************************************************************)
MaxPages == 2      \* pages in one generated / imported pad
MaxLedger == 3     \* lines a used-pages ledger may grow to
MaxInFlight == 2   \* messages in flight to one device
MaxXfers == 2      \* exchanges the Offerer starts
MaxChat == 2       \* lines in one chat window

(***************************************************************************)
(* Program constants and text.                                             *)
(***************************************************************************)
PAGE_ID_LENGTH == 8

\* "|" : the field separator of a ledger line, also a member of
\* string.punctuation and hence of the page alphabet.
Bar == <<124>>
\* "sent", "received"
SentText == <<115, 101, 110, 116>>
ReceivedText == <<114, 101, 99, 101, 105, 118, 101, 100>>
\* datetime.now().isoformat(): digits, "-", ":", "T", "."; abstracted to "T".
Timestamp == <<84>>

\* Pages the random generator may produce (page = 8-symbol id + content,
\* shortened content): "AAAAAAAAX", "BBBBBBBBY", "AA|AAAAAZ" (an id that
\* holds the "|" symbol) and "AAAAAAAAY" (an id collision with the first).
PageAX == <<65, 65, 65, 65, 65, 65, 65, 65, 88>>
PageBY == <<66, 66, 66, 66, 66, 66, 66, 66, 89>>
PageBarZ == <<65, 65, 124, 65, 65, 65, 65, 65, 90>>
PageAY == <<65, 65, 65, 65, 65, 65, 65, 65, 89>>
PageUniverse == {PageAX, PageBY, PageBarZ, PageAY}

\* Page ids a peer may name in a message: those of the universe and one
\* that belongs to no page ("CCCCCCCC").
IdUniverse == {<<65, 65, 65, 65, 65, 65, 65, 65>>,
               <<66, 66, 66, 66, 66, 66, 66, 66>>,
               <<65, 65, 124, 65, 65, 65, 65, 65>>,
               <<67, 67, 67, 67, 67, 67, 67, 67>>}

\* Store directories otp_data/contacts/<contact_id>/ as <<device, contact>>.
Keys == {<<"alice", "bob">>, <<"alice", "carol">>, <<"bob", "alice">>}
\* The directory the single-device specification operates on.
AliceKeys == {<<"alice", "bob">>}

\* All pads of 1..MaxPages pages.
RECURSIVE SeqsUpTo(_, _)
SeqsUpTo(S, n) ==
    IF n = 0 THEN {<<>>}
    ELSE LET shorter == SeqsUpTo(S, n - 1)
         IN shorter \cup {Append(s, x) : s \in {t \in shorter : Len(t) = n - 1}, x \in S}
Pads == SeqsUpTo(PageUniverse, MaxPages) \ {<<>>}

VARIABLES
    cipher,     \* cipher[k]: lines of otp_data/contacts/<k>/cipher.txt
    usedf,      \* usedf[k]: lines of otp_data/contacts/<k>/used_pages.txt
    info,       \* info[k]: content of otp_data/contacts/<k>/info.json
    ret,        \* outcome of the last completed store operation
    allocated,  \* allocated[k]: pages handed out by allocation, in order,
                \* since the pad of k was created
    proc,       \* proc[p]: position and locals of a thread inside a store call
    net,        \* net[d]: page ids of the messages the relay holds for device d
    chat,       \* chat[d]: lines add_message has put in the chat window of device d
    otp_file,   \* otp_file[d]: lines of otp_cipher.txt on device d (V1.3 store)
    used_pages, \* used_pages[d]: lines of used_pages.txt on device d (V1.3 ledger)
    shared,     \* shared[d]: content of shared_pages.json on device d
    client,     \* the Offerer's BluetoothClient thread
    server,     \* the Receiver's BluetoothServer thread
    sock,       \* the RFCOMM connection between them
    hist,       \* what the files were when the connection was made, and what
                \* happened to the connection since
    gen,        \* a page generator inside its sampling loop
    relay       \* the voice relay server: registry, rooms, lock, handler threads

storeVars == <<cipher, usedf, info, ret, allocated>>
xferVars == <<otp_file, used_pages, shared, client, server, sock, hist>>
vars == <<cipher, usedf, info, ret, allocated, proc, net, chat,
          otp_file, used_pages, shared, client, server, sock, hist, gen, relay>>

(***************************************************************************)
(* Slicing as Python does it: s[:n] and s[n:] never fail.                  *)
(***************************************************************************)
Take(s, n) == SubSeq(s, 1, IF n < Len(s) THEN n ELSE Len(s))
Range(s) == {s[i] : i \in 1..Len(s)}

PageId(page) == Take(page, PAGE_ID_LENGTH)
PageContent(page) ==
    IF PAGE_ID_LENGTH >= Len(page) THEN <<>>
    ELSE SubSeq(page, PAGE_ID_LENGTH + 1, Len(page))

\* [line.rstrip('\n') for line in f if len(line.strip()) > PAGE_ID_LENGTH]
\* (the page alphabet holds no whitespace, so strip() removes the newline only)
get_pad_pages(lines) == SelectSeq(lines, LAMBDA l : Len(l) > PAGE_ID_LENGTH)

\* {line.strip().split('|')[0] for line in f if line.strip()}
\* (line.split('|')[0] is the text before the first "|", the whole line when
\* it holds none)
get_used_page_ids(lines) ==
    LET SplitFirst(line) ==
            LET bars == {i \in 1..Len(line) : <<line[i]>> = Bar}
            IN IF bars = {} THEN line
               ELSE Take(line, (CHOOSE i \in bars : \A j \in bars : i <= j) - 1)
    IN {SplitFirst(lines[i]) : i \in {j \in 1..Len(lines) : lines[j] # <<>>}}

\* f"{page_id}|sent|{datetime.now().isoformat()}\n" (OTPHelper), and
\* f"{page_id}|{datetime.now().isoformat()}\n" (ContactPadManager)
HelperLedgerLine(page_id, direction) == page_id \o Bar \o direction \o Bar \o Timestamp
ManagerLedgerLine(page_id) == page_id \o Bar \o Timestamp

\* Index of the first page whose id is not in used_ids, 0 when there is none:
\* the "for page in all_pages: if page_id not in used_ids" scan.
FirstUnused(pages, used_ids) ==
    LET free == {i \in 1..Len(pages) : PageId(pages[i]) \notin used_ids}
    IN IF free = {} THEN 0 ELSE CHOOSE i \in free : \A j \in free : i <= j

\* Index of the first page whose id equals page_id, 0 when there is none.
FirstWithId(pages, page_id) ==
    LET hits == {i \in 1..Len(pages) : PageId(pages[i]) = page_id}
    IN IF hits = {} THEN 0 ELSE CHOOSE i \in hits : \A j \in hits : i <= j

\* A ledger line written for page_id is in the ledger file.
LedgerHas(lines, page_id) ==
    \E i \in 1..Len(lines) :
        /\ Len(lines[i]) > PAGE_ID_LENGTH
        /\ Take(lines[i], PAGE_ID_LENGTH) = page_id
        /\ <<lines[i][PAGE_ID_LENGTH + 1]>> = Bar

NoInfo == [present |-> FALSE, source |-> "", num_pages |-> 0, imported |-> FALSE]
\* What a call returned; tick flips with every completed call, so that two
\* calls with equal results are still two calls.
NoRet == [op |-> "none", key |-> <<"", "">>, found |-> FALSE, id |-> <<>>, content |-> <<>>,
          count |-> 0, tick |-> 0]
Ret(op, k, found, id, content) ==
    [op |-> op, key |-> k, found |-> found, id |-> id, content |-> content,
     count |-> 0, tick |-> 1 - ret.tick]
\* What a call that returns a number returned.
RetCount(op, k, n) == [Ret(op, k, TRUE, <<>>, <<>>) EXCEPT !.count = n]

(***************************************************************************)
(* OTPHelper / ContactPadManager operations, each one call run to its end. *)
(***************************************************************************)
get_page_for_contact(k) ==
    LET all_pages == get_pad_pages(cipher[k])
        used_ids == get_used_page_ids(usedf[k])
        i == FirstUnused(all_pages, used_ids)
    IN /\ i = 0 \/ (Len(usedf[k]) < MaxLedger /\ Len(allocated[k]) < MaxLedger)
       /\ IF i = 0
          THEN /\ ret' = Ret("alloc", k, FALSE, <<>>, <<>>)
               /\ UNCHANGED <<usedf, allocated>>
          ELSE /\ usedf' = [usedf EXCEPT ![k] =
                               Append(@, HelperLedgerLine(PageId(all_pages[i]), SentText))]
               /\ ret' = Ret("alloc", k, TRUE, PageId(all_pages[i]), PageContent(all_pages[i]))
               /\ allocated' = [allocated EXCEPT ![k] = Append(@, all_pages[i])]
       /\ UNCHANGED <<cipher, info>>

get_next_available_page(k) ==
    LET pages == get_pad_pages(cipher[k])
        used_ids == get_used_page_ids(usedf[k])
        i == FirstUnused(pages, used_ids)
    IN /\ i = 0 \/ (Len(usedf[k]) < MaxLedger /\ Len(allocated[k]) < MaxLedger)
       /\ IF i = 0
          THEN /\ ret' = Ret("alloc", k, FALSE, <<>>, <<>>)
               /\ UNCHANGED <<usedf, allocated>>
          ELSE /\ usedf' = [usedf EXCEPT ![k] = Append(@, ManagerLedgerLine(PageId(pages[i])))]
               /\ ret' = Ret("alloc", k, TRUE, PageId(pages[i]), PageContent(pages[i]))
               /\ allocated' = [allocated EXCEPT ![k] = Append(@, pages[i])]
       /\ UNCHANGED <<cipher, info>>

find_page_for_decryption(page_id, k) ==
    LET all_pages == get_pad_pages(cipher[k])
        used_ids == get_used_page_ids(usedf[k])
        i == FirstWithId(all_pages, page_id)
    IN /\ i = 0 \/ Len(usedf[k]) < MaxLedger
       /\ IF i = 0
          THEN /\ ret' = Ret("lookup", k, FALSE, page_id, <<>>)
               /\ UNCHANGED usedf
          ELSE /\ usedf' = IF page_id \notin used_ids
                           THEN [usedf EXCEPT ![k] =
                                    Append(@, HelperLedgerLine(page_id, ReceivedText))]
                           ELSE usedf
               /\ ret' = Ret("lookup", k, TRUE, page_id, PageContent(all_pages[i]))
       /\ UNCHANGED <<cipher, info, allocated>>

find_page_by_id(k, page_id) ==
    LET pages == get_pad_pages(cipher[k])
        used_ids == get_used_page_ids(usedf[k])
        i == FirstWithId(pages, page_id)
    IN /\ i = 0 \/ Len(usedf[k]) < MaxLedger
       /\ IF i = 0
          THEN /\ ret' = Ret("lookup", k, FALSE, page_id, <<>>)
               /\ UNCHANGED usedf
          ELSE /\ usedf' = IF page_id \notin used_ids
                           THEN [usedf EXCEPT ![k] = Append(@, ManagerLedgerLine(page_id))]
                           ELSE usedf
               /\ ret' = Ret("lookup", k, TRUE, page_id, PageContent(pages[i]))
       /\ UNCHANGED <<cipher, info, allocated>>

\* cipher_file.exists() and cipher_file.stat().st_size > 0
has_pad(k) == cipher[k] # <<>>

\* ContactPadManager.export_pad ("for Bluetooth sharing"): None without a
\* pad (no pages here), else get_all_pages.
export_pad(k) == IF ~has_pad(k) THEN <<>> ELSE get_pad_pages(cipher[k])

\* Variant of generate_pad_for_contact without the "pad already exists"
\* check: the new pad replaces the one that is there.
generate_pad_for_contact_overwrite(k, pages) ==
    /\ cipher' = [cipher EXCEPT ![k] = pages]
    /\ usedf' = [usedf EXCEPT ![k] = <<>>]
    /\ info' = [info EXCEPT ![k] = [present |-> TRUE, source |-> "generated",
                                     num_pages |-> Len(pages), imported |-> FALSE]]
    /\ ret' = Ret("generate", k, TRUE, <<>>, <<>>)
    /\ allocated' = [allocated EXCEPT ![k] = <<>>]

\* _generate_pages draws the pages at random: any pad of the universe.
generate_pad_for_contact(k, pages) ==
    IF cipher[k] # <<>>
    THEN /\ ret' = Ret("generate", k, FALSE, <<>>, <<>>)
         /\ UNCHANGED <<cipher, usedf, info, allocated>>
    ELSE /\ cipher' = [cipher EXCEPT ![k] = pages]
         /\ usedf' = [usedf EXCEPT ![k] = <<>>]
         /\ info' = [info EXCEPT ![k] = [present |-> TRUE, source |-> "generated",
                                          num_pages |-> Len(pages), imported |-> FALSE]]
         /\ ret' = Ret("generate", k, TRUE, <<>>, <<>>)
         /\ allocated' = [allocated EXCEPT ![k] = <<>>]

import_pad_for_contact(k, pages) ==
    IF cipher[k] # <<>>
    THEN /\ ret' = Ret("import", k, FALSE, <<>>, <<>>)
         /\ UNCHANGED <<cipher, usedf, info, allocated>>
    ELSE /\ cipher' = [cipher EXCEPT ![k] = pages]
         /\ usedf' = [usedf EXCEPT ![k] = <<>>]
         /\ info' = [info EXCEPT ![k] = [present |-> TRUE, source |-> "bluetooth",
                                          num_pages |-> Len(pages), imported |-> TRUE]]
         /\ ret' = Ret("import", k, TRUE, <<>>, <<>>)
         /\ allocated' = [allocated EXCEPT ![k] = <<>>]

\* Variant of delete_pad that removes cipher.txt and info.json and leaves
\* used_pages.txt where it is.
delete_pad_keep_ledger(k) ==
    /\ cipher' = [cipher EXCEPT ![k] = <<>>]
    /\ info' = [info EXCEPT ![k] = NoInfo]
    /\ ret' = Ret("delete", k, TRUE, <<>>, <<>>)
    /\ UNCHANGED <<usedf, allocated>>

\* shutil.rmtree(contact_dir): get_contact_dir has just made the directory,
\* so it exists and the call returns True.
delete_pad(k) ==
    /\ cipher' = [cipher EXCEPT ![k] = <<>>]
    /\ usedf' = [usedf EXCEPT ![k] = <<>>]
    /\ info' = [info EXCEPT ![k] = NoInfo]
    /\ ret' = Ret("delete", k, TRUE, <<>>, <<>>)
    /\ UNCHANGED allocated

\* Variant of delete_used_pages that writes the remaining pages back in
\* the reverse order.
delete_used_pages_reversed(k) ==
    LET used_ids == get_used_page_ids(usedf[k])
        pages == get_pad_pages(cipher[k])
        remaining == SelectSeq(pages, LAMBDA page : PageId(page) \notin used_ids)
    IN IF used_ids = {}
       THEN /\ ret' = RetCount("compact", k, 0)
            /\ UNCHANGED <<cipher, usedf, info, allocated>>
       ELSE /\ cipher' = [cipher EXCEPT ![k] =
                              [i \in 1..Len(remaining) |->
                                  remaining[Len(remaining) + 1 - i]]]
            /\ usedf' = [usedf EXCEPT ![k] = <<>>]
            /\ ret' = RetCount("compact", k, Len(pages) - Len(remaining))
            /\ UNCHANGED <<info, allocated>>

\* remaining = [p for p in pages if p[:PAGE_ID_LENGTH] not in used_ids];
\* nothing is touched when the ledger gives no ids.
delete_used_pages(k) ==
    LET used_ids == get_used_page_ids(usedf[k])
        pages == get_pad_pages(cipher[k])
        remaining == SelectSeq(pages, LAMBDA page : PageId(page) \notin used_ids)
    IN IF used_ids = {}
       THEN /\ ret' = RetCount("compact", k, 0)
            /\ UNCHANGED <<cipher, usedf, info, allocated>>
       ELSE /\ cipher' = [cipher EXCEPT ![k] = remaining]
            /\ usedf' = [usedf EXCEPT ![k] = <<>>]
            /\ ret' = RetCount("compact", k, Len(pages) - Len(remaining))
            /\ UNCHANGED <<info, allocated>>

(***************************************************************************)
(* Single device, calls one after the other.                               *)
(***************************************************************************)
Procs == {"p1", "p2"}
Devices == {"alice", "bob"}
Peer(d) == IF d = "alice" THEN "bob" ELSE "alice"

(***************************************************************************)
(* V1.3 otp_bluetooth_share.py: page files and checksum.                   *)
(***************************************************************************)
\* if len(line) >= PAGE_ID_LENGTH + 1: pages.append(line)
load_otp_pages(lines) == SelectSeq(lines, LAMBDA l : Len(l) >= PAGE_ID_LENGTH + 1)

\* {line.strip() for line in f if line.strip()}
load_used_pages(lines) == {lines[i] : i \in {j \in 1..Len(lines) : lines[j] # <<>>}}

\* The pages of the (page_id, page) tuples get_available_pages returns.
get_available_pages(file, usedlines, sh, exclude_used, exclude_shared) ==
    LET used == IF exclude_used THEN load_used_pages(usedlines) ELSE {}
        shared_ids == IF exclude_shared
                      THEN UNION {Range(sh[c].page_ids) : c \in DOMAIN sh}
                      ELSE {}
    IN SelectSeq(load_otp_pages(file),
                 LAMBDA page : PageId(page) \notin used /\ PageId(page) \notin shared_ids)

\* Variant of record_shared_pages that starts the contact's entry anew.
record_shared_pages_anew(sh, contact_id, page_ids, direction) ==
    [c \in DOMAIN sh \cup {contact_id} |->
        IF c = contact_id
        THEN [page_ids |-> page_ids,
              shared_at |-> <<[timestamp |-> Timestamp, count |-> Len(page_ids),
                               direction |-> direction]>>,
              direction |-> direction]
        ELSE sh[c]]

record_shared_pages(sh, contact_id, page_ids, direction) ==
    LET entry == IF contact_id \in DOMAIN sh THEN sh[contact_id]
                 ELSE [page_ids |-> <<>>, shared_at |-> <<>>, direction |-> direction]
        new == [entry EXCEPT !.page_ids = @ \o page_ids,
                             !.shared_at = Append(@, [timestamp |-> Timestamp,
                                                      count |-> Len(page_ids),
                                                      direction |-> direction])]
    IN [c \in DOMAIN sh \cup {contact_id} |-> IF c = contact_id THEN new ELSE sh[c]]

\* [p[:PAGE_ID_LENGTH] for p in pages]
PageIds(pages) == [i \in 1..Len(pages) |-> PageId(pages[i])]

RECURSIVE InsertSorted(_, _)
InsertSorted(x, s) ==
    \* Python's order on strings: by the first differing character, a proper
    \* prefix first.
    LET LexLE(a, b) ==
            LET n == IF Len(a) < Len(b) THEN Len(a) ELSE Len(b)
                diff == {i \in 1..n : a[i] # b[i]}
            IN IF diff = {} THEN Len(a) <= Len(b)
               ELSE a[CHOOSE i \in diff : \A j \in diff : i <= j]
                      < b[CHOOSE i \in diff : \A j \in diff : i <= j]
    IN IF s = <<>> THEN <<x>>
       ELSE IF LexLE(x, Head(s)) THEN <<x>> \o s
       ELSE <<Head(s)>> \o InsertSorted(x, Tail(s))

\* sorted(pages)
RECURSIVE SortPages(_)
SortPages(s) == IF s = <<>> THEN <<>> ELSE InsertSorted(Head(s), SortPages(Tail(s)))

RECURSIVE Flatten(_)
Flatten(s) == IF s = <<>> THEN <<>> ELSE Head(s) \o Flatten(Tail(s))

\* hasher.update(page) for page in sorted(pages): SHA-256 of the concatenated
\* sorted pages.  SHA-256 is taken to be collision free, the digest stands
\* for the text it was computed over.
calculate_pages_hash(pages) == Flatten(SortPages(pages))

\* Variant of add_pages_to_file that writes the pages in the sorted order
\* the checksum was computed over.
add_pages_to_file_sorted(file, pages) == file \o SortPages(pages)

\* with open(OTP_FILE, 'a'): f.write(page + '\n') for each page
add_pages_to_file(file, pages) == file \o pages

(***************************************************************************)
(* The exchange: threads, connection and messages.                         *)
(***************************************************************************)
Offerer == "alice"
Receiver == "bob"

NoPages == <<>>
Msg(type, sender_id, num_pages, hash, pages) ==
    [type |-> type, sender_id |-> sender_id, num_pages |-> num_pages, hash |-> hash,
     pages |-> pages]
Reply(type, n) == Msg(type, "", n, <<>>, NoPages)

\* response: the reply text the Offerer's status line shows after
\* "Transfer failed: "; total_size, sent, chunks: the locals of the chunked
\* send and the slices handed to sock.send.
ClientOff == [pc |-> "none", pages |-> NoPages, contact_id |-> "", outcome |-> "",
              response |-> "", total_size |-> 0, sent |-> 0, chunks |-> <<>>]
\* reply: the last reply handed to sock.send; verdict: how the hash compared.
\* listening: server_socket is open and bound; advertised: the service is
\* advertised on it; partial: the current recv loop holds data without its
\* sentinel.
ServerOff == [pc |-> "off", sender_id |-> "", num_pages |-> 0, expected_hash |-> <<>>,
              pages |-> NoPages, verdict |-> "", reply |-> "", outcome |-> "",
              listening |-> FALSE, advertised |-> FALSE, partial |-> FALSE]
SockClosed == [open |-> FALSE, c2s |-> <<>>, s2c |-> <<>>]
NoHist == [otp_file |-> [d \in Devices |-> <<>>],
           shared |-> [d \in Devices |-> <<>>],
           tampered |-> FALSE, dropped |-> FALSE, xfers |-> 0, stopped |-> FALSE]

\* No exchange is going on and the V1.3 files are empty.
XferIdle ==
    /\ otp_file = [d \in Devices |-> <<>>]
    /\ used_pages = [d \in Devices |-> <<>>]
    /\ shared = [d \in Devices |-> <<>>]
    /\ client = ClientOff
    /\ server = ServerOff
    /\ sock = SockClosed
    /\ hist = NoHist


\* No generator is running.
GenOff == [pc |-> "off", path |-> "", length |-> 0, stream |-> <<>>, pos |-> 0,
           reads |-> 0, result |-> <<>>, empty_read |-> FALSE, outcome |-> "",
           use_hwrng |-> FALSE, hwrng |-> "", origin |-> "", hwrng_used |-> FALSE]

IdleProc == [pc |-> "idle", arg |-> <<>>, pages |-> <<>>, used |-> {}, hit |-> <<>>]

\* The voice relay when it has started and nobody has connected: clients
\* and voice_rooms are empty (voice_rooms keeps the order in which the rooms
\* were made, as the dict does, and of a room its id and participants),
\* rooms_lock is free (0) and each connection slot is unused.  clients_lock
\* is not a field: no thread waits or locks while it holds clients_lock, so
\* each "with clients_lock" block is one step.  sent[c] is the message the
\* last step of the relay has sent on the socket of connection c, if any
\* (the last one when it has sent several).
MaxConns == 2
RelayStart ==
    [clients |-> <<>>,
     voice_rooms |-> <<>>,
     rooms_lock |-> 0,
     handler |-> [c \in 1..MaxConns |->
                     [pc |-> "idle", user_id |-> "", open |-> FALSE,
                      rejected |-> FALSE, message |-> <<>>, room_id |-> "",
                      exclude |-> "",
                      i |-> 0, rooms_to_delete |-> {}, after |-> ""]],
     sent |-> [c \in 1..MaxConns |-> <<>>]]

\* No thread is inside a call, the relay holds nothing and the chat windows
\* are empty.
Quiet ==
    /\ proc = [p \in Procs |-> IdleProc]
    /\ net = [d \in Devices |-> <<>>]
    /\ chat = [d \in Devices |-> <<>>]

Init ==
    /\ cipher = [k \in Keys |-> <<>>]
    /\ usedf = [k \in Keys |-> <<>>]
    /\ info = [k \in Keys |-> NoInfo]
    /\ ret = NoRet
    /\ allocated = [k \in Keys |-> <<>>]
    /\ Quiet
    /\ gen = GenOff
    /\ relay = RelayStart
    /\ XferIdle

\* Contact ids as DeviceConfig.validate_id admits them (11 lowercase
\* alphanumerics), named here by who they belong to.
AdminContacts == {"bob"}

\* Variant of get_contact_dir that gives every contact the same directory.
get_contact_dir_shared(device, contact_id) == <<device, "bob">>

\* CONTACTS_DIR / contact_id on the given device.
get_contact_dir(device, contact_id) == <<device, contact_id>>

AdminGenerate(contacts, pads) ==
    /\ \E c \in contacts, pages \in pads :
          generate_pad_for_contact(get_contact_dir("alice", c), pages)
    /\ UNCHANGED <<proc, net, chat, gen, relay, xferVars>>
AdminImport(contacts, pads) ==
    /\ \E c \in contacts, pages \in pads :
          import_pad_for_contact(get_contact_dir("alice", c), pages)
    /\ UNCHANGED <<proc, net, chat, gen, relay, xferVars>>
AdminAllocate(contacts) ==
    /\ \E c \in contacts : get_next_available_page(get_contact_dir("alice", c))
    /\ UNCHANGED <<proc, net, chat, gen, relay, xferVars>>
AdminLookup(contacts, ids) ==
    /\ \E c \in contacts, id \in ids :
          find_page_by_id(get_contact_dir("alice", c), id)
    /\ UNCHANGED <<proc, net, chat, gen, relay, xferVars>>
DeletePad(contacts) ==
    /\ \E c \in contacts : delete_pad(get_contact_dir("alice", c))
    /\ UNCHANGED <<proc, net, chat, gen, relay, xferVars>>
DeleteUsedPages(contacts) ==
    /\ \E c \in contacts : delete_used_pages(get_contact_dir("alice", c))
    /\ UNCHANGED <<proc, net, chat, gen, relay, xferVars>>

HelperAllocate ==
    /\ \E k \in AliceKeys : get_page_for_contact(k)
    /\ UNCHANGED <<proc, net, chat, gen, relay, xferVars>>
HelperLookup ==
    /\ \E k \in AliceKeys, id \in IdUniverse : find_page_for_decryption(id, k)
    /\ UNCHANGED <<proc, net, chat, gen, relay, xferVars>>
\* The process exits and starts again: OTPHelper.__init__ keeps nothing in
\* memory, pad and ledger are read from the files by each call.
RestartProcess ==
    /\ ret' = [NoRet EXCEPT !.tick = 1 - ret.tick]
    /\ UNCHANGED <<cipher, usedf, info, allocated>>
    /\ UNCHANGED <<proc, net, chat, gen, relay, xferVars>>

Next ==
    \/ AdminGenerate(AdminContacts, Pads)
    \/ AdminImport(AdminContacts, Pads)
    \/ HelperAllocate
    \/ AdminAllocate(AdminContacts)
    \/ HelperLookup
    \/ AdminLookup(AdminContacts, IdUniverse)
    \/ RestartProcess

Spec == Init /\ [][Next]_vars

(***************************************************************************)
(* Claims on the single-device store.                                      *)
(***************************************************************************)
\* A call completed in this step and returned a page of directory k.
Returned(op, k) ==
    /\ ret'.tick # ret.tick
    /\ ret'.op = op
    /\ ret'.key = k
    /\ ret'.found

\* C1: for one contact, no Page ID is returned by allocation more than once,
\* over any sequence of allocations, lookups and restarts.
C1_NoPageIdAllocatedTwice ==
    \A k \in Keys : \A i, j \in 1..Len(allocated[k]) :
        i # j => PageId(allocated[k][i]) # PageId(allocated[k][j])

\* C2: once a ledger record for page_id exists, no later allocation and no
\* later lookup for that contact returns that page.
C2_UsedPageNeverReturned ==
    [][\A k \in Keys, id \in IdUniverse :
          LedgerHas(usedf[k], id) =>
              ~((Returned("alloc", k) \/ Returned("lookup", k)) /\ ret'.id = id)]_vars

\* C10: allocation returns the first page in storage order whose ID has no
\* record in the ledger, the record for that ID is in the ledger when the
\* call returns, and it returns None with the ledger unchanged exactly when
\* every page's ID is in the ledger (or there are no pages).
C10_AllocateFirstUnrecorded ==
    [][\A k \in Keys :
          (ret'.tick # ret.tick /\ ret'.op = "alloc" /\ ret'.key = k) =>
              LET pages == get_pad_pages(cipher[k])
                  free == {i \in 1..Len(pages) : ~LedgerHas(usedf[k], PageId(pages[i]))}
                  first == CHOOSE i \in free : \A j \in free : i <= j
              IN IF free = {}
                 THEN ~ret'.found /\ usedf' = usedf
                 ELSE /\ ret'.found
                      /\ ret'.id = PageId(pages[first])
                      /\ ret'.content = PageContent(pages[first])
                      /\ LedgerHas(usedf'[k], ret'.id)]_vars

\* C11: a lookup repeated with the same Page ID for the same contact returns
\* what the first call returned (the same Content) and appends nothing: the
\* two calls append one ledger record in total.
C11_RepeatedLookupAppendsOnce ==
    [][\A k \in Keys, id \in IdUniverse :
          (/\ ret.op = "lookup" /\ ret.key = k /\ ret.id = id
           /\ ret'.tick # ret.tick
           /\ ret'.op = "lookup" /\ ret'.key = k /\ ret'.id = id) =>
              /\ ret'.found = ret.found
              /\ ret'.content = ret.content
              /\ usedf' = usedf]_vars

(***************************************************************************)
(* The messaging client's send path (V1.3 otp_client_v2.py).               *)
(***************************************************************************)
\* A line of the chat window: the tag add_message was called with and the
\* page id the line is about.
ChatLine(tag, page_id) == [tag |-> tag, page_id |-> page_id]

\* OTPHelper.contact_has_pad: cipher.txt exists and st_size > 0.
contact_has_pad(k) == cipher[k] # <<>>

\* OTPClientGUI.send_message on device d to its peer.  Without a pad the
\* error box "No Cipher Pad" is shown; when get_page_for_contact returns None
\* the box "No Pages Left"; the page is taken before the length check and a
\* message longer than the page is not sent.  The boxes are recorded with the
\* lines of the chat window.
send_message(d, too_long) ==
    /\ Len(net[Peer(d)]) < MaxInFlight
    /\ Len(chat[d]) < MaxChat
    /\ IF ~contact_has_pad(<<d, Peer(d)>>)
       THEN /\ chat' = [chat EXCEPT ![d] = Append(@, ChatLine("No Cipher Pad", <<>>))]
            /\ UNCHANGED <<storeVars, net>>
       ELSE /\ get_page_for_contact(<<d, Peer(d)>>)
            /\ net' = IF ret'.found /\ ~too_long
                      THEN [net EXCEPT ![Peer(d)] = Append(@, ret'.id)]
                      ELSE net
            /\ chat' = IF ~ret'.found
                       THEN [chat EXCEPT ![d] = Append(@, ChatLine("No Pages Left", <<>>))]
                       ELSE IF ~too_long
                       THEN [chat EXCEPT ![d] = Append(@, ChatLine("sent", ret'.id))]
                       ELSE chat
    /\ UNCHANGED <<proc, gen, relay, xferVars>>

(***************************************************************************)
(* The counts of available pages the two classes report for a contact.     *)
(***************************************************************************)
\* ContactPadManager.get_available_count: total - used of get_page_counts,
\* the lines of the pad longer than the id and the non-empty ledger lines.
manager_get_available_count(k) ==
    Len(get_pad_pages(cipher[k])) - Len(SelectSeq(usedf[k], LAMBDA l : l # <<>>))

\* OTPHelper.get_page_counts: available = len(all_pages) - len(used_ids)
helper_get_page_counts(k) ==
    Len(get_pad_pages(cipher[k])) - Cardinality(get_used_page_ids(usedf[k]))

\* OTPHelper.get_available_count:
\* len([p for p in all_pages if p[:PAGE_ID_LENGTH] not in used_ids])
helper_get_available_count(k) ==
    Len(SelectSeq(get_pad_pages(cipher[k]),
                  LAMBDA p : PageId(p) \notin get_used_page_ids(usedf[k])))

\* C36: in every state of the store each of the three counts is the number
\* of allocations that can still succeed: it is not negative, it is 0
\* exactly when an allocation would return None, and so the three agree.
C36_AvailableCountMatchesAllocation ==
    \A k \in AliceKeys :
        LET none_left == FirstUnused(get_pad_pages(cipher[k]),
                                     get_used_page_ids(usedf[k])) = 0
        IN /\ manager_get_available_count(k) >= 0
           /\ helper_get_page_counts(k) >= 0
           /\ helper_get_available_count(k) >= 0
           /\ (manager_get_available_count(k) = 0) <=> none_left
           /\ (helper_get_page_counts(k) = 0) <=> none_left
           /\ (helper_get_available_count(k) = 0) <=> none_left
           /\ manager_get_available_count(k) = helper_get_available_count(k)
           /\ helper_get_page_counts(k) = helper_get_available_count(k)

(***************************************************************************)
(* The pad manager (V1.4 otp_manager.py, ContactPadManager) working on the *)
(* pad of a contact of one device: create, allocate, look up, compact and  *)
(* delete, in any order.                                                   *)
(***************************************************************************)
\* Pads of distinct pages; one page id holds "|".
AdminPads == {pad \in SeqsUpTo({PageAX, PageBarZ}, MaxPages) \ {<<>>} :
                 \A i, j \in 1..Len(pad) : pad[i] = pad[j] => i = j}

NextAdmin ==
    \/ AdminGenerate(AdminContacts, AdminPads)
    \/ AdminImport(AdminContacts, AdminPads)
    \/ AdminAllocate(AdminContacts)
    \/ AdminLookup(AdminContacts, IdUniverse)
    \/ DeletePad(AdminContacts)
    \/ DeleteUsedPages(AdminContacts)

SpecAdmin == Init /\ [][NextAdmin]_vars

(***************************************************************************)
(* The pad manager working on the pads of two contacts, calls for one and  *)
(* for the other in any order.                                             *)
(***************************************************************************)
FrameContacts == {"bob", "carol"}
FramePads == {<<PageAX>>, <<PageAX, PageBY>>}

NextFrame ==
    \/ AdminGenerate(FrameContacts, FramePads)
    \/ AdminImport(FrameContacts, FramePads)
    \/ AdminAllocate(FrameContacts)
    \/ AdminLookup(FrameContacts, {PageId(PageAX), PageId(PageBY)})
    \/ DeletePad(FrameContacts)
    \/ DeleteUsedPages(FrameContacts)

SpecFrame == Init /\ [][NextFrame]_vars

\* C17: a call for one contact (create, allocate, look up, compact, delete)
\* leaves the pages, the ledger and the metadata of every other contact as
\* they were, whatever the order of the calls for the two contacts.
C17_OtherContactsUntouched ==
    [][\A c \in FrameContacts :
          (ret'.tick # ret.tick /\ ret'.key = get_contact_dir("alice", c)) =>
              \A other \in FrameContacts \ {c} :
                  LET k == get_contact_dir("alice", other)
                  IN /\ cipher'[k] = cipher[k]
                     /\ usedf'[k] = usedf[k]
                     /\ info'[k] = info[k]]_vars
C17_Witness ==
    /\ ret.op \in {"delete", "compact"}
    /\ ret.key = get_contact_dir("alice", "bob")
    /\ ~has_pad(get_contact_dir("alice", "bob"))
    /\ has_pad(get_contact_dir("alice", "carol"))
    /\ usedf[get_contact_dir("alice", "carol")] # <<>>
    /\ info[get_contact_dir("alice", "carol")].present

\* C13: creating a pad (generated or imported) for a contact that has a
\* non-empty pad fails, and the contact's pages, ledger and info metadata are
\* what they were.
C13_CreateOnExistingPadFails ==
    [][\A k \in Keys :
          (/\ ret'.tick # ret.tick
           /\ ret'.op \in {"generate", "import"}
           /\ ret'.key = k
           /\ cipher[k] # <<>>) =>
              /\ ~ret'.found
              /\ cipher'[k] = cipher[k]
              /\ usedf'[k] = usedf[k]
              /\ info'[k] = info[k]]_vars
C13_Witness ==
    /\ ret.op \in {"generate", "import"}
    /\ ~ret.found
    /\ get_pad_pages(cipher[ret.key]) # <<>>
    /\ usedf[ret.key] # <<>>
    /\ info[ret.key].present

\* C15: compaction leaves in the pad exactly the pages whose ID had no record
\* in the ledger, in their order, leaves the ledger empty and returns the
\* number of pages it removed.
C15_CompactKeepsExactlyUnused ==
    [][\A k \in Keys :
          (ret'.tick # ret.tick /\ ret'.op = "compact" /\ ret'.key = k) =>
              LET pages == get_pad_pages(cipher[k])
                  unused == SelectSeq(pages,
                                      LAMBDA page : ~LedgerHas(usedf[k], PageId(page)))
              IN /\ get_pad_pages(cipher'[k]) = unused
                 /\ usedf'[k] = <<>>
                 /\ ret'.count = Len(pages) - Len(unused)]_vars

\* The pages that n successive calls of get_next_available_page return
\* from a pad and a ledger, up to the first call that returns None.
RECURSIVE successive_allocations(_, _, _)
successive_allocations(pages, lines, n) ==
    LET i == FirstUnused(pages, get_used_page_ids(lines))
    IN IF n = 0 \/ i = 0 THEN <<>>
       ELSE <<pages[i]>> \o
            successive_allocations(pages,
                                   Append(lines, ManagerLedgerLine(PageId(pages[i]))),
                                   n - 1)

\* C37: compaction leaves the pages it keeps in the order they had, and the
\* pages that successive allocations return after it are the pages they
\* would have returned without it.
C37_CompactKeepsAllocationSequence ==
    [][\A k \in Keys :
          (ret'.tick # ret.tick /\ ret'.op = "compact" /\ ret'.key = k) =>
              LET pages == get_pad_pages(cipher[k])
              IN /\ cipher'[k] = SelectSeq(pages, LAMBDA page : page \in Range(cipher'[k]))
                 /\ successive_allocations(get_pad_pages(cipher'[k]), usedf'[k],
                                           MaxLedger + 1)
                       = successive_allocations(pages, usedf[k], MaxLedger + 1)]_vars
C37_Witness ==
    /\ ret.op = "compact"
    /\ ret.count = 1
    /\ get_pad_pages(cipher[ret.key]) = <<PageBarZ>>
    /\ usedf[ret.key] = <<>>
    /\ Len(allocated[ret.key]) = 2

\* C16: delete_pad leaves the contact without pad, ledger and metadata; the
\* call that follows it for that contact returns None when it is an
\* allocation or a lookup and succeeds when it creates a pad.
C16_DeletePadRemovesEverything ==
    [][\A k \in Keys :
          /\ (ret'.tick # ret.tick /\ ret'.op = "delete" /\ ret'.key = k) =>
                /\ ~has_pad(k)'
                /\ usedf'[k] = <<>>
                /\ info'[k] = NoInfo
          /\ (/\ ret.op = "delete" /\ ret.key = k
              /\ ret'.tick # ret.tick /\ ret'.key = k) =>
                /\ ret'.op \in {"alloc", "lookup"} => ~ret'.found /\ usedf'[k] = <<>>
                /\ ret'.op \in {"generate", "import"} => ret'.found /\ has_pad(k)']_vars
C16_Witness ==
    /\ ret.op = "delete"
    /\ ~has_pad(ret.key)
    /\ usedf[ret.key] = <<>>
    /\ info[ret.key] = NoInfo
    /\ Len(allocated[ret.key]) >= 2

(***************************************************************************)
(* The messaging client sending to a contact whose pad the pad manager of  *)
(* the same device creates, compacts and deletes.                          *)
(***************************************************************************)
NextSend ==
    \/ AdminGenerate(AdminContacts, FramePads)
    \/ \E too_long \in BOOLEAN : send_message("alice", too_long)
    \/ DeleteUsedPages(AdminContacts)
    \/ DeletePad(AdminContacts)

SpecSend == Init /\ [][NextSend]_vars

\* C26: a send attempt shows "No Cipher Pad" only for a contact that has been
\* given no pad, and "No Pages Left" only for a contact that has been given
\* one; for a contact that has been given a pad and has been allocated every
\* page still in it (compacted or not) the attempt shows "No Pages Left".
C26_NoPadAndNoPagesLeftDistinguished ==
    [][\A d \in Devices :
          LET k == <<d, Peer(d)>>
              line == chat'[d][Len(chat'[d])]
              all_used == Range(get_pad_pages(cipher[k])) \subseteq Range(allocated[k])
          IN (/\ Len(chat'[d]) = Len(chat[d]) + 1
              /\ line.tag \in {"sent", "No Cipher Pad", "No Pages Left"}) =>
                /\ line.tag = "No Cipher Pad" => ~info[k].present
                /\ line.tag = "No Pages Left" => info[k].present
                /\ (info[k].present /\ allocated[k] # <<>> /\ all_used) =>
                      line.tag = "No Pages Left"]_vars

\* C27: no page whose ID has a record in the contact's used ledger is among
\* the pages export_pad hands out for sharing, and none whose ID is in the
\* sharing tool's used ledger is in a batch the tool offers.
C27_UsedPagesNeverOfferedOrExported ==
    /\ \A k \in Keys : \A i \in 1..Len(export_pad(k)) :
          ~LedgerHas(usedf[k], PageId(export_pad(k)[i]))
    /\ client.pc # "none" =>
          Range(PageIds(client.pages)) \cap load_used_pages(used_pages[Offerer]) = {}

(***************************************************************************)
(* Two threads (or processes) inside OTPHelper calls on one directory.     *)
(* Each call is four steps: read cipher.txt, read used_pages.txt, scan and *)
(* append to used_pages.txt, return.  Nothing in the source serializes     *)
(* them: the client's send path runs on the Tk thread and process_message  *)
(* on the receive thread, both through the same OTPHelper.                 *)
(***************************************************************************)
ConcKey == <<"alice", "bob">>
\* The pad is one whose page ids hold no "|".
InitConc ==
    /\ cipher \in {[k \in Keys |-> IF k = ConcKey THEN pad ELSE <<>>] :
                      pad \in SeqsUpTo({PageAX, PageBY, PageAY}, MaxPages) \ {<<>>}}
    /\ usedf = [k \in Keys |-> <<>>]
    /\ info = [k \in Keys |-> NoInfo]
    /\ ret = NoRet
    /\ allocated = [k \in Keys |-> <<>>]
    /\ Quiet
    /\ gen = GenOff
    /\ relay = RelayStart
    /\ XferIdle

\* all_pages = self.get_pad_pages(contact_id)
AllocReadPages(p) ==
    /\ proc[p].pc = "idle"
    /\ proc' = [proc EXCEPT ![p].pc = "alloc_used",
                            ![p].pages = get_pad_pages(cipher[ConcKey])]
    /\ UNCHANGED <<storeVars, net, chat, gen, relay, xferVars>>

\* used_ids = self.get_used_page_ids(contact_id)
AllocReadLedger(p) ==
    /\ proc[p].pc = "alloc_used"
    /\ proc' = [proc EXCEPT ![p].pc = "alloc_scan",
                            ![p].used = get_used_page_ids(usedf[ConcKey])]
    /\ UNCHANGED <<storeVars, net, chat, gen, relay, xferVars>>

\* the scan of the snapshot and the append of the "sent" line
AllocAppend(p) ==
    /\ proc[p].pc = "alloc_scan"
    /\ LET i == FirstUnused(proc[p].pages, proc[p].used)
       IN /\ i = 0 \/ Len(usedf[ConcKey]) < MaxLedger
          /\ IF i = 0
             THEN /\ proc' = [proc EXCEPT ![p].pc = "alloc_ret", ![p].hit = <<>>]
                  /\ UNCHANGED usedf
             ELSE /\ usedf' = [usedf EXCEPT ![ConcKey] =
                                  Append(@, HelperLedgerLine(PageId(proc[p].pages[i]), SentText))]
                  /\ proc' = [proc EXCEPT ![p].pc = "alloc_ret", ![p].hit = proc[p].pages[i]]
    /\ UNCHANGED <<cipher, info, ret, allocated, net, chat, gen, relay, xferVars>>

\* return (page_id, page[PAGE_ID_LENGTH:])  /  return None
AllocReturn(p) ==
    /\ proc[p].pc = "alloc_ret"
    /\ LET page == proc[p].hit
       IN /\ proc' = [proc EXCEPT ![p] = IdleProc]
          /\ allocated' = IF page = <<>> THEN allocated
                          ELSE [allocated EXCEPT ![ConcKey] = Append(@, page)]
    /\ UNCHANGED <<cipher, usedf, info, ret, net, chat, gen, relay, xferVars>>

\* all_pages = self.get_pad_pages(contact_id), for find_page_for_decryption
FindReadPages(p, page_id) ==
    /\ proc[p].pc = "idle"
    /\ proc' = [proc EXCEPT ![p].pc = "find_used", ![p].arg = page_id,
                            ![p].pages = get_pad_pages(cipher[ConcKey])]
    /\ UNCHANGED <<storeVars, net, chat, gen, relay, xferVars>>

FindReadLedger(p) ==
    /\ proc[p].pc = "find_used"
    /\ proc' = [proc EXCEPT ![p].pc = "find_scan",
                            ![p].used = get_used_page_ids(usedf[ConcKey])]
    /\ UNCHANGED <<storeVars, net, chat, gen, relay, xferVars>>

FindAppend(p) ==
    /\ proc[p].pc = "find_scan"
    /\ LET i == FirstWithId(proc[p].pages, proc[p].arg)
           append == i # 0 /\ proc[p].arg \notin proc[p].used
       IN /\ ~append \/ Len(usedf[ConcKey]) < MaxLedger
          /\ usedf' = IF append
                      THEN [usedf EXCEPT ![ConcKey] =
                               Append(@, HelperLedgerLine(proc[p].arg, ReceivedText))]
                      ELSE usedf
          /\ proc' = [proc EXCEPT ![p].pc = "find_ret",
                                  ![p].hit = IF i = 0 THEN <<>> ELSE proc[p].pages[i]]
    /\ UNCHANGED <<cipher, info, ret, allocated, net, chat, gen, relay, xferVars>>

FindReturn(p) ==
    /\ proc[p].pc = "find_ret"
    /\ proc' = [proc EXCEPT ![p] = IdleProc]
    /\ UNCHANGED <<storeVars, net, chat, gen, relay, xferVars>>

NextConc ==
    \/ \E p \in Procs : AllocReadPages(p)
    \/ \E p \in Procs : AllocReadLedger(p)
    \/ \E p \in Procs : AllocAppend(p)
    \/ \E p \in Procs : AllocReturn(p)
    \/ \E p \in Procs, id \in IdUniverse : FindReadPages(p, id)
    \/ \E p \in Procs : FindReadLedger(p)
    \/ \E p \in Procs : FindAppend(p)
    \/ \E p \in Procs : FindReturn(p)

SpecConc == InitConc /\ [][NextConc]_vars

\* C4: two allocation calls whose steps interleave never both return the
\* same page, and an allocation interleaved with a lookup that marks a page
\* as received never returns that page.
C4_ConcurrentAllocationsDistinct ==
    \A i \in 1..Len(allocated[ConcKey]) :
        /\ \A j \in 1..Len(allocated[ConcKey]) :
              i # j => allocated[ConcKey][i] # allocated[ConcKey][j]
        /\ ~\E l \in 1..Len(usedf[ConcKey]) :
               usedf[ConcKey][l] = HelperLedgerLine(PageId(allocated[ConcKey][i]),
                                                    ReceivedText)

(***************************************************************************)
(* One process inside get_page_for_contact that may die at any of its      *)
(* steps and start again; what it had read is lost, the files stay.        *)
(***************************************************************************)
Solo == "p1"

InitCrash ==
    /\ cipher \in {[k \in Keys |-> IF k = ConcKey THEN pad ELSE <<>>] : pad \in Pads}
    /\ usedf = [k \in Keys |-> <<>>]
    /\ info = [k \in Keys |-> NoInfo]
    /\ ret = NoRet
    /\ allocated = [k \in Keys |-> <<>>]
    /\ Quiet
    /\ gen = GenOff
    /\ relay = RelayStart
    /\ XferIdle

\* The process is killed inside the call; the next one starts from the files.
Crash ==
    /\ proc[Solo].pc # "idle"
    /\ proc' = [proc EXCEPT ![Solo] = IdleProc]
    /\ UNCHANGED <<storeVars, net, chat, gen, relay, xferVars>>

NextCrash ==
    \/ AllocReadPages(Solo)
    \/ AllocReadLedger(Solo)
    \/ AllocAppend(Solo)
    \/ AllocReturn(Solo)
    \/ Crash

SpecCrash == InitCrash /\ [][NextCrash]_vars

\* C14: whatever the step at which an allocation is cut short by a crash, a
\* page that was handed to the caller is not handed out again by an
\* allocation made after the restart.
C14_CrashNeverEnablesReuse ==
    \A i, j \in 1..Len(allocated[ConcKey]) :
        i < j => PageId(allocated[ConcKey][j]) # PageId(allocated[ConcKey][i])

(***************************************************************************)
(* Two devices holding byte-identical pads for each other (otp_client_v2). *)
(***************************************************************************)
\* The pad the two devices share: one page, or two distinct pages.
InitPair ==
    /\ cipher \in {[k \in Keys |-> IF k \in {<<"alice", "bob">>, <<"bob", "alice">>}
                                   THEN pad ELSE <<>>] :
                      pad \in {<<PageAX>>, <<PageBY>>, <<PageAX, PageBY>>}}
    /\ usedf = [k \in Keys |-> <<>>]
    /\ info = [k \in Keys |-> NoInfo]
    /\ ret = NoRet
    /\ allocated = [k \in Keys |-> <<>>]
    /\ Quiet
    /\ gen = GenOff
    /\ relay = RelayStart
    /\ XferIdle

\* Variant of process_message without the else branch: a message whose page
\* is not found is dropped without a line in the chat window.
process_message_drop(d) ==
    /\ net[d] # <<>>
    /\ Len(chat[d]) < MaxChat
    /\ find_page_for_decryption(Head(net[d]), <<d, Peer(d)>>)
    /\ net' = [net EXCEPT ![d] = Tail(@)]
    /\ chat' = IF ret'.found /\ ret'.content # <<>>
               THEN [chat EXCEPT ![d] = Append(@, ChatLine("received", ret'.id))]
               ELSE chat
    /\ UNCHANGED <<proc, gen, relay, xferVars>>

\* OTPClientGUI.process_message on device d for the oldest message held:
\* display_received for a page that was found, otherwise the line
\* "[Cannot decrypt - no matching page <page_id>]" with the tag "warning".
process_message(d) ==
    /\ net[d] # <<>>
    /\ Len(chat[d]) < MaxChat
    /\ find_page_for_decryption(Head(net[d]), <<d, Peer(d)>>)
    /\ net' = [net EXCEPT ![d] = Tail(@)]
    /\ chat' = [chat EXCEPT ![d] =
                   Append(@, IF ret'.found /\ ret'.content # <<>>
                             THEN ChatLine("received", ret'.id)
                             ELSE ChatLine("warning", ret'.id))]
    /\ UNCHANGED <<proc, gen, relay, xferVars>>

\* receive_loop: the relay hands device d a message whose page id is not
\* one of this device's store (the ids of the store come in through send_message).
relay_deliver(d, page_id) ==
    /\ Len(net[d]) < MaxInFlight
    /\ net' = [net EXCEPT ![d] = Append(@, page_id)]
    /\ UNCHANGED <<storeVars, proc, chat, gen, relay, xferVars>>

NextPair ==
    \/ \E d \in Devices, too_long \in BOOLEAN : send_message(d, too_long)
    \/ \E d \in Devices : process_message(d)
    \* with the page ids of IdUniverse that no generated page has
    \/ \E d \in Devices, page_id \in IdUniverse \ {PageId(page) : page \in PageUniverse} :
          relay_deliver(d, page_id)

SpecPair == InitPair /\ [][NextPair]_vars

\* C3: with byte-identical pads on both devices, every page is consumed
\* exactly once overall: no page is allocated twice by one device and the
\* two devices never both allocate the same page.
C3_PairNeverAllocatesSamePage ==
    LET a == allocated[<<"alice", "bob">>]
        b == allocated[<<"bob", "alice">>]
    IN /\ \A i, j \in 1..Len(a) : i # j => a[i] # a[j]
       /\ \A i, j \in 1..Len(b) : i # j => b[i] # b[j]
       /\ \A i \in 1..Len(a), j \in 1..Len(b) : a[i] # b[j]

\* C12: a lookup for a Page ID that no page of the contact's pad has returns
\* None and appends nothing to the ledger, and the client that received the
\* message puts a cannot-decrypt line for that Page ID in its chat window.
C12_AbsentPageCannotDecrypt ==
    [][\A d \in Devices :
          LET k == <<d, Peer(d)>>
          IN (/\ ret'.tick # ret.tick
              /\ ret'.op = "lookup"
              /\ ret'.key = k
              /\ FirstWithId(get_pad_pages(cipher[k]), ret'.id) = 0) =>
                 /\ ~ret'.found
                 /\ usedf' = usedf
                 /\ chat'[d] = Append(chat[d], ChatLine("warning", ret'.id))]_vars
C12_Witness ==
    \E d \in Devices :
        /\ ret.op = "lookup"
        /\ ret.key = <<d, Peer(d)>>
        /\ ~ret.found
        /\ cipher[ret.key] # <<>>
        /\ FirstWithId(get_pad_pages(cipher[ret.key]), ret.id) = 0
        /\ chat[d] # <<>>
        /\ chat[d][Len(chat[d])] = ChatLine("warning", ret.id)

(***************************************************************************)
(* The Bluetooth exchange between the Offerer's BluetoothClient and the    *)
(* Receiver's BluetoothServer (V1.3 otp_bluetooth_share.py).  A reply or a *)
(* payload is one message of the stream; the link may drop at any moment   *)
(* (what was in flight is lost) and a finished side closes its socket      *)
(* (what was in flight is still read).                                     *)
(***************************************************************************)
\* The Offerer's otp_cipher.txt: generated identifiers are random, so the pages
\* of one file are taken to be distinct.
InitXfer ==
    /\ cipher = [k \in Keys |-> <<>>]
    /\ usedf = [k \in Keys |-> <<>>]
    /\ info = [k \in Keys |-> NoInfo]
    /\ ret = NoRet
    /\ allocated = [k \in Keys |-> <<>>]
    /\ Quiet
    /\ gen = GenOff
    /\ relay = RelayStart
    /\ otp_file \in {[d \in Devices |-> IF d = Offerer THEN pad ELSE rpad] :
                        pad \in {q \in SeqsUpTo({PageAX, PageBY}, MaxPages) \ {<<>>} :
                                    \A i, j \in 1..Len(q) : q[i] = q[j] => i = j},
                        rpad \in {<<>>, <<PageBY>>}}
    /\ used_pages \in [Devices -> {<<>>, <<PageId(PageAX)>>, <<PageId(PageBY)>>}]
    \* only pages a device holds can have been used by its messaging client
    /\ \A d \in Devices : load_used_pages(used_pages[d])
                              \subseteq Range(PageIds(load_otp_pages(otp_file[d])))
    /\ shared = [d \in Devices |-> <<>>]
    /\ client = ClientOff
    /\ server = ServerOff
    /\ sock = SockClosed
    /\ hist = [NoHist EXCEPT !.otp_file = otp_file]

ClientDone(outcome) == [client EXCEPT !.pc = "done", !.outcome = outcome]

\* Variant of stop that ends the advertisement and leaves the listening
\* socket open.
stop_without_close(srv) == [srv EXCEPT !.advertised = FALSE]

\* BluetoothServer.stop: stop_advertising and server_socket.close().
stop(srv) == [srv EXCEPT !.listening = FALSE, !.advertised = FALSE]

\* BluetoothServer.run leaves through "finally: self.stop()".
ServerDone(outcome) == stop([server EXCEPT !.pc = "done", !.outcome = outcome,
                                           !.partial = FALSE])

\* OTPBluetoothShareApp.send_pages: the first num_pages available pages go to
\* a new BluetoothClient; asking for more than there are only warns.
app_send_pages(contact_id, num_pages) ==
    LET available == get_available_pages(otp_file[Offerer], used_pages[Offerer],
                                         shared[Offerer], TRUE, FALSE)
    IN /\ client.pc \in {"none", "done"}
       /\ hist.xfers < MaxXfers
       /\ num_pages <= Len(available)
       /\ client' = [ClientOff EXCEPT !.pc = "connect",
                                       !.pages = Take(available, num_pages),
                                       !.contact_id = contact_id]
       /\ hist' = [hist EXCEPT !.xfers = @ + 1]
       /\ UNCHANGED <<storeVars, proc, net, chat, gen, relay, otp_file, used_pages, shared, server, sock>>

\* OTPBluetoothShareApp.start_receiving: a new BluetoothServer binds, listens
\* and advertises the service.
start_receiving ==
    /\ server.pc \in {"off", "done"}
    /\ server' = [ServerOff EXCEPT !.pc = "listening", !.listening = TRUE,
                                   !.advertised = TRUE]
    /\ hist' = [hist EXCEPT !.stopped = FALSE]
    /\ UNCHANGED <<storeVars, proc, net, chat, gen, relay, otp_file, used_pages, shared, client, sock>>

\* OTPBluetoothShareApp.stop_receiving: self.server.stop() and self.server =
\* None, from the Stop button or from on_pages_received.  The server thread
\* and the socket of an accepted connection are not touched.
stop_receiving ==
    /\ server.pc # "off"
    /\ ~hist.stopped
    /\ server' = stop(server)
    /\ hist' = [hist EXCEPT !.stopped = TRUE]
    /\ UNCHANGED <<storeVars, proc, net, chat, gen, relay, otp_file, used_pages, shared, client, sock>>

\* server_socket.accept() gives up after 300 seconds.
AcceptTimeout ==
    /\ server.pc = "listening"
    /\ server' = ServerDone("timeout")
    /\ UNCHANGED <<storeVars, proc, net, chat, gen, relay, otp_file, used_pages, shared, client, sock, hist>>

\* server_socket.accept() on a socket that stop has closed raises.
AcceptOnClosedSocket ==
    /\ server.pc = "listening"
    /\ ~server.listening
    /\ server' = ServerDone("error")
    /\ UNCHANGED <<storeVars, proc, net, chat, gen, relay, otp_file, used_pages, shared, client, sock, hist>>

\* BluetoothClient.run: sock.connect, accepted by a listening server.
ClientConnect ==
    /\ client.pc = "connect"
    /\ IF server.pc = "listening" /\ server.listening
       THEN /\ client' = [client EXCEPT !.pc = "send_header"]
            /\ server' = [server EXCEPT !.pc = "recv_header"]
            /\ sock' = [open |-> TRUE, c2s |-> <<>>, s2c |-> <<>>]
            /\ hist' = [hist EXCEPT !.otp_file = otp_file, !.shared = shared,
                                    !.tampered = FALSE, !.dropped = FALSE]
       ELSE /\ client' = ClientDone("error")
            /\ UNCHANGED <<server, sock, hist>>
    /\ UNCHANGED <<storeVars, proc, net, chat, gen, relay, otp_file, used_pages, shared>>

\* BluetoothClient.send_pages: header and sentinel.
ClientSendHeader ==
    /\ client.pc = "send_header"
    /\ IF sock.open
       THEN /\ sock' = [sock EXCEPT !.c2s =
                           Append(@, Msg("header", Offerer, Len(client.pages),
                                         calculate_pages_hash(client.pages), NoPages))]
            /\ client' = [client EXCEPT !.pc = "wait_ack"]
       ELSE /\ client' = ClientDone("error")
            /\ UNCHANGED sock
    /\ UNCHANGED <<storeVars, proc, net, chat, gen, relay, otp_file, used_pages, shared, server, hist>>

\* Variant of ClientRecvAck that goes on to the pages whatever the reply to
\* the header is.
ClientRecvAckAny ==
    /\ client.pc = "wait_ack"
    /\ \/ /\ sock.s2c # <<>>
          /\ sock' = [sock EXCEPT !.s2c = Tail(@)]
          /\ client' = [client EXCEPT !.pc = "send_pages"]
       \/ /\ sock.s2c = <<>>
          /\ ~sock.open
          /\ \E outcome \in {"error", "not_acked"} : client' = ClientDone(outcome)
          /\ UNCHANGED sock
    /\ UNCHANGED <<storeVars, proc, net, chat, gen, relay, otp_file, used_pages, shared, server, hist>>

\* ack = sock.recv(1024): on a dead connection recv raises or returns b"".
ClientRecvAck ==
    /\ client.pc = "wait_ack"
    /\ \/ /\ sock.s2c # <<>>
          /\ sock' = [sock EXCEPT !.s2c = Tail(@)]
          /\ client' = IF Head(sock.s2c).type = "ACK_HEADER"
                       THEN [client EXCEPT !.pc = "send_pages"]
                       ELSE ClientDone("not_acked")
       \/ /\ sock.s2c = <<>>
          /\ ~sock.open
          /\ \E outcome \in {"error", "not_acked"} : client' = ClientDone(outcome)
          /\ UNCHANGED sock
    /\ UNCHANGED <<storeVars, proc, net, chat, gen, relay, otp_file, used_pages, shared, server, hist>>

\* the chunked send of the serialized pages and their sentinel
ClientSendPages ==
    /\ client.pc = "send_pages"
    /\ IF sock.open
       THEN /\ sock' = [sock EXCEPT !.c2s =
                           Append(@, Msg("pages", "", 0, <<>>, client.pages))]
            /\ client' = [client EXCEPT !.pc = "wait_reply"]
       ELSE /\ client' = ClientDone("error")
            /\ UNCHANGED sock
    /\ UNCHANGED <<storeVars, proc, net, chat, gen, relay, otp_file, used_pages, shared, server, hist>>

\* Variant of ClientRecvReply that records the pages as sent whatever the
\* reply says.
ClientRecvReplyAlways ==
    /\ client.pc = "wait_reply"
    /\ \/ /\ sock.s2c # <<>>
          /\ sock' = [sock EXCEPT !.s2c = Tail(@)]
          /\ shared' = [shared EXCEPT ![Offerer] =
                           record_shared_pages(@, client.contact_id,
                                               PageIds(client.pages), "sent")]
          /\ client' = [ClientDone(IF Head(sock.s2c).type = "OK" THEN "ok" ELSE "failed")
                           EXCEPT !.response = Head(sock.s2c).type]
       \/ /\ sock.s2c = <<>>
          /\ ~sock.open
          /\ \E outcome \in {"error", "failed"} : client' = ClientDone(outcome)
          /\ UNCHANGED <<sock, shared>>
    /\ UNCHANGED <<storeVars, proc, net, chat, gen, relay, otp_file, used_pages, server, hist>>

\* response = sock.recv(1024): "OK:" records the pages as sent.
ClientRecvReply ==
    /\ client.pc = "wait_reply"
    /\ \/ /\ sock.s2c # <<>>
          /\ sock' = [sock EXCEPT !.s2c = Tail(@)]
          /\ IF Head(sock.s2c).type = "OK"
             THEN /\ shared' = [shared EXCEPT ![Offerer] =
                                   record_shared_pages(@, client.contact_id,
                                                       PageIds(client.pages), "sent")]
                  /\ client' = [ClientDone("ok") EXCEPT !.response = "OK"]
             ELSE /\ client' = [ClientDone("failed")
                                   EXCEPT !.response = Head(sock.s2c).type]
                  /\ UNCHANGED shared
       \/ /\ sock.s2c = <<>>
          /\ ~sock.open
          /\ \E outcome \in {"error", "failed"} : client' = ClientDone(outcome)
          /\ UNCHANGED <<sock, shared>>
    /\ UNCHANGED <<storeVars, proc, net, chat, gen, relay, otp_file, used_pages, server, hist>>

\* BluetoothServer.receive_pages: the header loop.  A recv returns the rest
\* of the header with its sentinel, or a chunk that does not hold the
\* sentinel yet.  On a dead connection recv raises, or returns b"" for ever
\* (the loop has no test for it).
ServerRecvHeader ==
    /\ server.pc = "recv_header"
    /\ \/ /\ sock.c2s # <<>>
          /\ ~server.partial
          /\ server' = [server EXCEPT !.partial = TRUE]
          /\ UNCHANGED sock
       \/ /\ sock.c2s # <<>>
          /\ IF sock.open
             THEN /\ sock' = [sock EXCEPT !.c2s = Tail(@),
                                          !.s2c = Append(@, Reply("ACK_HEADER", 0))]
                  /\ server' = [server EXCEPT !.pc = "recv_pages",
                                              !.partial = FALSE,
                                              !.sender_id = Head(sock.c2s).sender_id,
                                              !.num_pages = Head(sock.c2s).num_pages,
                                              !.expected_hash = Head(sock.c2s).hash,
                                              !.reply = "ACK_HEADER"]
             ELSE /\ sock' = [sock EXCEPT !.c2s = Tail(@)]
                  /\ server' = [ServerDone("error") EXCEPT !.reply = "ACK_HEADER"]
       \/ /\ sock.c2s = <<>>
          /\ ~sock.open
          /\ \/ server' = ServerDone("error")
             \/ server' = [server EXCEPT !.pc = "spin"]
          /\ UNCHANGED sock
    /\ UNCHANGED <<storeVars, proc, net, chat, gen, relay, otp_file, used_pages, shared, client, hist>>

\* the pages loop: a recv returns the rest of the payload with its sentinel,
\* or a chunk without the sentinel, after which
\* progress = len(pages_data) / (num_pages * 3500) * 100 is computed (a
\* ZeroDivisionError when num_pages is 0); an empty chunk leaves the loop and
\* parsing the unfinished payload fails.
ServerRecvPages ==
    /\ server.pc = "recv_pages"
    /\ \/ /\ sock.c2s # <<>>
          /\ sock' = [sock EXCEPT !.c2s = Tail(@)]
          /\ server' = [server EXCEPT !.pc = "verify", !.partial = FALSE,
                                      !.pages = Head(sock.c2s).pages]
       \/ /\ sock.c2s # <<>>
          /\ ~server.partial
          /\ server' = IF server.num_pages = 0 THEN ServerDone("error")
                       ELSE [server EXCEPT !.partial = TRUE]
          /\ UNCHANGED sock
       \/ /\ sock.c2s = <<>>
          /\ ~sock.open
          /\ server' = ServerDone("error")
          /\ UNCHANGED sock
    /\ UNCHANGED <<storeVars, proc, net, chat, gen, relay, otp_file, used_pages, shared, client, hist>>

\* Variant of ServerVerify without the return after the ERROR reply: the
\* Receiver goes on to save whatever the hashes are.
ServerVerifyNoReturn ==
    /\ server.pc = "verify"
    /\ sock.open
    /\ IF calculate_pages_hash(server.pages) # server.expected_hash
       THEN /\ server' = [server EXCEPT !.pc = "commit", !.verdict = "mismatch",
                                        !.reply = "ERROR"]
            /\ sock' = [sock EXCEPT !.s2c = Append(@, Reply("ERROR", 0))]
       ELSE /\ server' = [server EXCEPT !.pc = "commit", !.verdict = "match",
                                        !.reply = "OK"]
            /\ sock' = [sock EXCEPT !.s2c = Append(@, Reply("OK", Len(server.pages)))]
    /\ UNCHANGED <<storeVars, proc, net, chat, gen, relay, otp_file, used_pages, shared, client, hist>>

\* "Verify hash": ERROR and return, or OK and go on to save.
ServerVerify ==
    /\ server.pc = "verify"
    /\ IF calculate_pages_hash(server.pages) # server.expected_hash
       THEN /\ server' = [ServerDone(IF sock.open THEN "hash_mismatch" ELSE "error")
                             EXCEPT !.verdict = "mismatch", !.reply = "ERROR"]
            /\ sock' = IF sock.open
                       THEN [sock EXCEPT !.s2c = Append(@, Reply("ERROR", 0))]
                       ELSE sock
       ELSE IF sock.open
            THEN /\ server' = [server EXCEPT !.pc = "commit", !.verdict = "match",
                                             !.reply = "OK"]
                 /\ sock' = [sock EXCEPT !.s2c = Append(@, Reply("OK", Len(server.pages)))]
            ELSE /\ server' = [ServerDone("error") EXCEPT !.verdict = "match",
                                                          !.reply = "OK"]
                 /\ UNCHANGED sock
    /\ UNCHANGED <<storeVars, proc, net, chat, gen, relay, otp_file, used_pages, shared, client, hist>>

\* "Save pages and record sharing"
ServerCommit ==
    /\ server.pc = "commit"
    /\ otp_file' = [otp_file EXCEPT ![Receiver] = add_pages_to_file(@, server.pages)]
    /\ shared' = [shared EXCEPT ![Receiver] =
                     record_shared_pages(@, server.sender_id, PageIds(server.pages),
                                         "received")]
    /\ server' = ServerDone("ok")
    /\ UNCHANGED <<storeVars, proc, net, chat, gen, relay, used_pages, client, sock, hist>>

\* The payload that reaches sock.recv is not the one that was sent: one page
\* replaced, the last page missing, or the pages in reverse order.
Tamper ==
    /\ sock.c2s # <<>>
    /\ Head(sock.c2s).type = "pages"
    /\ ~hist.tampered
    /\ LET pages == Head(sock.c2s).pages
           Tamperings ==
               {[pages EXCEPT ![i] = q] : i \in 1..Len(pages), q \in PageUniverse}
                   \cup {Take(pages, Len(pages) - 1)}
                   \cup {[i \in 1..Len(pages) |-> pages[Len(pages) + 1 - i]]}
       IN \E forged \in Tamperings \ {pages} :
             sock' = [sock EXCEPT !.c2s = <<[Head(sock.c2s) EXCEPT !.pages = forged]>>]
    /\ hist' = [hist EXCEPT !.tampered = TRUE]
    /\ UNCHANGED <<storeVars, proc, net, chat, gen, relay, otp_file, used_pages, shared, client, server>>

\* The header that reaches the Receiver is the header of an empty batch (a
\* peer that is not this program, or a forged header): no pages, and the
\* digest of no pages.
ForgeHeader ==
    /\ sock.c2s # <<>>
    /\ Head(sock.c2s).type = "header"
    /\ ~hist.tampered
    /\ sock' = [sock EXCEPT !.c2s = <<[Head(sock.c2s) EXCEPT
                                         !.num_pages = 0,
                                         !.hash = calculate_pages_hash(NoPages)]>>]
    /\ hist' = [hist EXCEPT !.tampered = TRUE]
    /\ UNCHANGED <<storeVars, proc, net, chat, gen, relay, otp_file, used_pages, shared, client, server>>

\* The reply to the header that reaches the Offerer is not ACK_HEADER.
ForgeReply ==
    /\ sock.s2c # <<>>
    /\ Head(sock.s2c).type = "ACK_HEADER"
    /\ ~hist.tampered
    /\ sock' = [sock EXCEPT !.s2c = <<Reply("NAK", 0)>>]
    /\ hist' = [hist EXCEPT !.tampered = TRUE]
    /\ UNCHANGED <<storeVars, proc, net, chat, gen, relay, otp_file, used_pages, shared, client, server>>

\* The link drops while the Offerer is still in the exchange.
Disconnect ==
    /\ sock.open
    /\ client.pc \in {"send_header", "wait_ack", "send_pages", "wait_reply"}
    /\ sock' = SockClosed
    /\ hist' = [hist EXCEPT !.dropped = TRUE]
    /\ UNCHANGED <<storeVars, proc, net, chat, gen, relay, otp_file, used_pages, shared, client, server>>

\* sock.close() / client_socket.close() of a side that has finished: the
\* Offerer's thread, or the Receiver's thread that had accepted the
\* connection (the user may have started a new one since).
CloseConnection ==
    /\ sock.open
    /\ client.pc = "done" \/ server.pc \in {"done", "listening", "off"}
    /\ sock' = [sock EXCEPT !.open = FALSE]
    /\ UNCHANGED <<storeVars, proc, net, chat, gen, relay, otp_file, used_pages, shared, client, server, hist>>

NextXfer ==
    \* the contacts the Offerer's user may pick in the contact combobox
    \/ \E contact_id \in {"bob", "carol"}, num_pages \in 1..MaxPages :
          app_send_pages(contact_id, num_pages)
    \/ start_receiving
    \/ stop_receiving
    \/ AcceptTimeout
    \/ AcceptOnClosedSocket
    \/ ClientConnect
    \/ ClientSendHeader
    \/ ClientRecvAck
    \/ ClientSendPages
    \/ ClientRecvReply
    \/ ServerRecvHeader
    \/ ServerRecvPages
    \/ ServerVerify
    \/ ServerCommit
    \/ Tamper
    \/ ForgeHeader
    \/ ForgeReply
    \/ Disconnect
    \/ CloseConnection

SpecXfer == InitXfer /\ [][NextXfer]_vars

\* C5: a page recorded as shared with one contact is never in a batch
\* offered to a different contact.
C5_NoPageOfferedToTwoContacts ==
    client.pc # "none" =>
        \A c \in DOMAIN shared[Offerer] \ {client.contact_id} :
            Range(PageIds(client.pages)) \cap Range(shared[Offerer][c].page_ids) = {}

\* C6: when the digest computed over the received pages differs from the
\* Header digest, nothing is committed (the Receiver's page file, used ledger
\* and shared record are as they were) and the reply is ERROR.
C6_MismatchCommitsNothing ==
    server.verdict = "mismatch" =>
        /\ otp_file[Receiver] = hist.otp_file[Receiver]
        /\ shared[Receiver] = hist.shared[Receiver]
        /\ server.pc = "done"
        /\ server.reply = "ERROR"
C6_Witness ==
    /\ server.verdict = "mismatch"
    /\ hist.tampered
    /\ server.outcome = "hash_mismatch"
    /\ Len(server.pages) = Len(client.pages)

C8_ExchangeIntoExistingPadRejected ==
    (load_otp_pages(hist.otp_file[Receiver]) # <<>> /\ server.pc = "done") =>
        /\ otp_file[Receiver] = hist.otp_file[Receiver]
        /\ server.outcome # "ok"

\* C9: when the connection fails before the Offerer has its final reply,
\* the page files and ledgers of both sides are what they were.
C9_TransportErrorLeavesStoresUntouched ==
    hist.dropped =>
        /\ otp_file = hist.otp_file
        /\ shared = hist.shared

\* C18: the Offerer's shared record changes only by the step that reads an OK
\* reply, and then by a "sent" entry for the ids of the batch; a step that
\* ends the Offerer's side otherwise (ERROR reply, header not acknowledged,
\* connection lost) leaves the record as it was.
C18_SentRecordedOnlyAfterOK ==
    [][/\ shared'[Offerer] # shared[Offerer] =>
             /\ client.pc = "wait_reply"
             /\ sock.s2c # <<>>
             /\ Head(sock.s2c).type = "OK"
             /\ client'.outcome = "ok"
             /\ shared'[Offerer] = record_shared_pages(shared[Offerer], client.contact_id,
                                                       PageIds(client.pages), "sent")
       /\ (client.pc # "done" /\ client'.pc = "done" /\ client'.outcome # "ok") =>
             shared'[Offerer] = shared[Offerer]]_vars
C18_Witness ==
    /\ client.pc = "done"
    /\ client.outcome = "ok"
    /\ client.contact_id \in DOMAIN shared[Offerer]
    /\ shared[Offerer][client.contact_id].page_ids = PageIds(client.pages)
    /\ shared[Offerer][client.contact_id].direction = "sent"
    /\ Len(client.pages) = MaxPages

\* C19: an OK reply is on its way or has been read only when the Receiver
\* has committed the batch; whenever the Offerer has recorded a batch as
\* sent, every page of the batch is in the Receiver's page file.
C19_OKOnlyAfterCommit ==
    /\ (\E i \in 1..Len(sock.s2c) : sock.s2c[i].type = "OK") => server.outcome = "ok"
    /\ (client.pc = "done" /\ client.outcome = "ok") =>
          Range(client.pages) \subseteq Range(load_otp_pages(otp_file[Receiver]))

\* C21: once the Receiver has been cancelled its listening socket is closed
\* and its service is no longer advertised, in whatever phase the cancel
\* came; and what a cancelled Receiver's page file holds is what it held
\* when the connection was accepted, or that followed by the complete batch
\* whose digest matched the header's: never a part of a batch.
C21_StopReleasesAndNeverCommitsPartial ==
    hist.stopped =>
        /\ ~server.listening
        /\ ~server.advertised
        /\ (server.pc \in {"recv_header", "spin", "recv_pages", "verify", "commit"}
               \/ server.sender_id # "") =>
              \/ otp_file[Receiver] = hist.otp_file[Receiver]
              \/ /\ otp_file[Receiver] = hist.otp_file[Receiver] \o server.pages
                 /\ server.verdict = "match"
                 /\ calculate_pages_hash(server.pages) = server.expected_hash
C21_Witness ==
    /\ hist.stopped
    /\ server.pc = "recv_pages"
    /\ server.partial
    /\ ~server.listening
    /\ sock.open

C24_MismatchReportedAsVerificationFailure ==
    /\ (server.pc = "done" /\ server.verdict = "mismatch") =>
          server.outcome = "hash_mismatch"
    /\ (server.pc = "done" /\ server.outcome = "hash_mismatch") =>
          server.verdict = "mismatch"
    /\ (client.pc = "done" /\ client.response = "ERROR") =>
          /\ client.outcome = "failed"
          /\ server.verdict = "mismatch"

\* C25: when the header declared no pages, the connection stayed up and the
\* payload on it (read, or still being read) has a digest other than the
\* header's, a Receiver that has finished has sent ERROR, found a mismatch
\* and committed nothing.
C25_ZeroCountMismatchRunsMismatchPath ==
    (/\ server.pc = "done"
     /\ server.sender_id # ""
     /\ server.num_pages = 0
     /\ ~hist.dropped
     /\ \/ /\ server.pages # NoPages
           /\ calculate_pages_hash(server.pages) # server.expected_hash
        \/ /\ sock.c2s # <<>>
           /\ Head(sock.c2s).type = "pages"
           /\ calculate_pages_hash(Head(sock.c2s).pages) # server.expected_hash) =>
        /\ server.reply = "ERROR"
        /\ server.verdict = "mismatch"
        /\ server.outcome = "hash_mismatch"
        /\ otp_file[Receiver] = hist.otp_file[Receiver]
        /\ shared[Receiver] = hist.shared[Receiver]

(***************************************************************************)
(* The exchange with its two threads scheduled fairly: a thread that can   *)
(* take its next step takes it.  What the users and the radio link do      *)
(* (offering, listening, dropping the link, forging) is under no such      *)
(* obligation.                                                             *)
(***************************************************************************)
ClientThread ==
    \/ ClientConnect
    \/ ClientSendHeader
    \/ ClientRecvAck
    \/ ClientSendPages
    \/ ClientRecvReply
ServerThread ==
    \/ ServerRecvHeader
    \/ ServerRecvPages
    \/ ServerVerify
    \/ ServerCommit

SpecXferLive ==
    /\ InitXfer
    /\ [][NextXfer]_vars
    /\ WF_vars(ClientThread)
    /\ WF_vars(ServerThread)

\* C20: the header-reading phase (the Receiver waiting in recv, or going
\* round on the empty chunks of a connection the peer has closed) always
\* comes to an end: when the sentinel does not arrive the Receiver's transfer
\* fails, it does not wait or loop for ever.
C20_HeaderPhaseTerminates ==
    server.pc \in {"recv_header", "spin"} ~> server.pc \notin {"recv_header", "spin"}

\* The two threads scheduled fairly, and each closing its end of the
\* connection when it has finished (sock.close() in the finally clause of
\* BluetoothClient.run, client_socket.close() after receive_pages).
SpecXferClosing == SpecXferLive /\ WF_vars(CloseConnection)

\* C35: an exchange that has started comes to an end on both sides: the
\* Offerer's thread finishes, and the Receiver's thread that has accepted
\* the connection finishes.
C35_ExchangeTerminatesOnBothSides ==
    /\ client.pc \in {"connect", "send_header", "wait_ack", "send_pages", "wait_reply"}
          ~> client.pc = "done"
    /\ server.pc \in {"recv_header", "spin", "recv_pages", "verify", "commit"}
          ~> server.pc = "done"

(***************************************************************************)
(* The page generators: rejection sampling of bytes read from the entropy  *)
(* device (V1.4 otp_generator.py, V1.4 otp_manager.py's hardware-RNG path, *)
(* generate_otp.py).  The device is a stream of bytes; a read returns at   *)
(* least one and at most chunk_size of the bytes that are left, and no     *)
(* byte when none is left.  Page lengths (3500 in the programs) are scaled *)
(* down to MaxSymbols.                                                     *)
(***************************************************************************)
MaxSymbols == 2     \* symbols asked for
MaxStream == 3      \* bytes the device delivers before it is exhausted

\* string.ascii_uppercase + string.digits + string.punctuation
chars ==
    LET ascii_uppercase == [i \in 1..26 |-> 64 + i]
        digits == [i \in 1..10 |-> 47 + i]
        punctuation == [i \in 1..15 |-> 32 + i] \o [i \in 1..7 |-> 57 + i]
                           \o [i \in 1..6 |-> 90 + i] \o [i \in 1..4 |-> 122 + i]
    IN  ascii_uppercase \o digits \o punctuation
charset_len == Len(chars)

GenPaths == {"generate_random_page", "_generate_hwrng_pages", "generate_hwrng_page"}

\* limit = 204 in the two generator scripts,
\* limit = (256 // charset_len) * charset_len in the pad manager.
limit(path) == IF path = "_generate_hwrng_pages"
               THEN (256 \div charset_len) * charset_len
               ELSE 204

\* Variant of the acceptance test that lets the byte equal to the limit in.
accepted_le(byte, path) == byte <= limit(path)

\* if byte < limit
accepted(byte, path) == byte < limit(path)

\* chars[byte % charset_len] (Python indexes from 0)
symbol(byte) == chars[(byte % charset_len) + 1]

\* Variant of the for loop without the break: every accepted byte of the
\* chunk is appended.
RECURSIVE sample_chunk_no_break(_, _, _, _)
sample_chunk_no_break(result, raw_bytes, length, path) ==
    IF raw_bytes = <<>> THEN result
    ELSE IF accepted(Head(raw_bytes), path)
    THEN sample_chunk_no_break(Append(result, symbol(Head(raw_bytes))),
                               Tail(raw_bytes), length, path)
    ELSE sample_chunk_no_break(result, Tail(raw_bytes), length, path)

\* for byte in raw_bytes: append the symbol of an accepted byte, break when
\* the result has length symbols.
RECURSIVE sample_chunk(_, _, _, _)
sample_chunk(result, raw_bytes, length, path) ==
    IF raw_bytes = <<>> THEN result
    ELSE IF accepted(Head(raw_bytes), path)
    THEN IF Len(result) + 1 >= length
         THEN Append(result, symbol(Head(raw_bytes)))
         ELSE sample_chunk(Append(result, symbol(Head(raw_bytes))),
                           Tail(raw_bytes), length, path)
    ELSE sample_chunk(result, Tail(raw_bytes), length, path)

\* One turn of "while len(result) < length": leave the loop, or read
\* (length - len(result)) * 4 bytes and go through them.  on_empty is what
\* the function does with a read that returned no byte.
sampling_loop(path, on_empty) ==
    /\ gen.pc = "loop"
    /\ gen.path = path
    /\ IF Len(gen.result) >= gen.length
       THEN gen' = [gen EXCEPT !.pc = "done"]
       ELSE IF gen.pos = Len(gen.stream)
       THEN gen' = on_empty
       ELSE \E n \in 1..(Len(gen.stream) - gen.pos) :
               /\ n <= (gen.length - Len(gen.result)) * 4
               /\ gen' = [gen EXCEPT
                             !.pos = @ + n,
                             !.reads = @ + 1,
                             !.result = sample_chunk(@, SubSeq(gen.stream, gen.pos + 1,
                                                               gen.pos + n),
                                                     gen.length, path)]
    /\ UNCHANGED <<storeVars, proc, net, chat, xferVars, relay>>

\* otp_generator.py: if not raw_bytes: raise IOError(...)
generate_random_page ==
    sampling_loop("generate_random_page",
                  [gen EXCEPT !.pc = "failed", !.empty_read = TRUE, !.outcome = "IOError"])

\* otp_manager.py: the loop has no test for an empty read and goes round.
generate_hwrng_pages ==
    sampling_loop("_generate_hwrng_pages", [gen EXCEPT !.empty_read = TRUE])

\* generate_otp.py: if not raw_bytes: raise IOError(...)
generate_hwrng_page ==
    sampling_loop("generate_hwrng_page",
                  [gen EXCEPT !.pc = "failed", !.empty_read = TRUE, !.outcome = "IOError"])

\* What the device delivers: any one byte, or a few of the bytes at the
\* edges of the acceptance test and of the symbol map.
InitGen ==
    /\ cipher = [k \in Keys |-> <<>>]
    /\ usedf = [k \in Keys |-> <<>>]
    /\ info = [k \in Keys |-> NoInfo]
    /\ ret = NoRet
    /\ allocated = [k \in Keys |-> <<>>]
    /\ Quiet
    /\ XferIdle
    /\ relay = RelayStart
    /\ gen \in {[GenOff EXCEPT !.pc = "loop", !.path = path, !.length = length,
                               !.stream = stream] :
                   path \in GenPaths, length \in 0..MaxSymbols,
                   stream \in {<<b>> : b \in 0..255}
                                  \cup SeqsUpTo({0, 68, 203, 204}, MaxStream)}

NextGen ==
    \/ generate_random_page
    \/ generate_hwrng_pages
    \/ generate_hwrng_page

SpecGen == InitGen /\ [][NextGen]_vars

\* The symbols of the accepted bytes of a stretch of the stream, in order,
\* by the numbers of the specification: reject b >= floor(256/68)*68, map
\* b to the symbol of index b % 68.
RECURSIVE ImagesOfAccepted(_)
ImagesOfAccepted(bytes) ==
    IF bytes = <<>> THEN <<>>
    ELSE IF Head(bytes) >= (256 \div 68) * 68 THEN ImagesOfAccepted(Tail(bytes))
    ELSE <<chars[(Head(bytes) % 68) + 1]>> \o ImagesOfAccepted(Tail(bytes))

C30_EmptyReadFailsGeneration ==
    /\ gen.empty_read => (gen.pc = "failed" /\ gen.outcome = "IOError")
    /\ gen.pc = "done" => Len(gen.result) = gen.length

(***************************************************************************)
(* The pad manager choosing the entropy source of a new pad.  gen holds    *)
(* the last generation that wrote a pad: what the caller selected, what    *)
(* the device did, where the pages came from, and the hwrng_used entry     *)
(* written to the pad's info.                                              *)
(***************************************************************************)
\* _generate_pages: the hardware RNG when it is selected and exists; on any
\* exception of that path ("HWRNG failed, falling back to urandom"), and
\* when it is not selected or not there, the pages come from
\* _generate_urandom_pages.
generate_pages(use_hwrng, hwrng) ==
    IF use_hwrng /\ hwrng # "absent"
    THEN IF hwrng = "working" THEN "hwrng" ELSE "urandom"
    ELSE "urandom"

\* 'hwrng_used': use_hwrng and os.path.exists(PI_HWRNG_DEVICE)
hwrng_used(use_hwrng, hwrng) == use_hwrng /\ hwrng # "absent"

\* generate_pad_for_contact(contact_id, num_pages, use_hwrng) as the device
\* PI_HWRNG_DEVICE is found at the call: not there, there but raising when
\* opened or read, or there and delivering bytes.
GenerateFromSource ==
    /\ \E c \in AdminContacts, pages \in FramePads, use_hwrng \in BOOLEAN,
          hwrng \in {"absent", "failing", "working"} :
          LET k == get_contact_dir("alice", c)
          IN /\ generate_pad_for_contact(k, pages)
             /\ gen' = IF has_pad(k) THEN gen
                       ELSE [GenOff EXCEPT !.pc = "done",
                                           !.path = "_generate_pages",
                                           !.use_hwrng = use_hwrng,
                                           !.hwrng = hwrng,
                                           !.origin = generate_pages(use_hwrng, hwrng),
                                           !.hwrng_used = hwrng_used(use_hwrng, hwrng)]
    /\ UNCHANGED <<proc, net, chat, xferVars, relay>>

NextOrigin ==
    \/ GenerateFromSource
    \/ AdminAllocate(AdminContacts)
    \/ DeleteUsedPages(AdminContacts)
    \/ DeletePad(AdminContacts)

SpecOrigin == Init /\ [][NextOrigin]_vars

\* C31: a pad generated with the hardware RNG selected and failing does not
\* hold pages of the CSPRNG, and the hwrng_used entry of a generated pad is
\* true only if its pages were drawn from the hardware RNG.
C31_EntropySourceNeverSubstituted ==
    gen.pc = "done" =>
        /\ (gen.use_hwrng /\ gen.hwrng = "failing") => gen.origin # "urandom"
        /\ gen.hwrng_used => gen.origin = "hwrng"

(***************************************************************************)
(* The page codec: a generator that has left its sampling loop with the    *)
(* symbols of one page hands the page over, the page is written as a line  *)
(* of the pad file, and the store's allocation reads it back.  The page    *)
(* length (3500 in the programs, never below the id length) is scaled down *)
(* to PAGE_ID_LENGTH..MaxContent.                                          *)
(***************************************************************************)
MaxContent == 9     \* symbols in the longest page content

\* Variant of encode that prepends nothing.
encode_no_id(page_content) == page_content

\* page_id = page_content[:PAGE_ID_LENGTH]; return page_id + page_content
encode(page_content) == Take(page_content, PAGE_ID_LENGTH) \o page_content

InitCodec ==
    /\ cipher = [k \in Keys |-> <<>>]
    /\ usedf = [k \in Keys |-> <<>>]
    /\ info = [k \in Keys |-> NoInfo]
    /\ ret = NoRet
    /\ allocated = [k \in Keys |-> <<>>]
    /\ Quiet
    /\ XferIdle
    /\ relay = RelayStart
    /\ gen \in {[GenOff EXCEPT !.pc = "done", !.path = path, !.length = Len(c),
                               !.result = c] :
                   path \in GenPaths,
                   c \in {id \o tail : id \in IdUniverse,
                                        tail \in SeqsUpTo({88, 124},
                                                          MaxContent - PAGE_ID_LENGTH)}}

\* The end of the three generators and the write of their page:
\* generate_random_page returns the content behind its id prefix and
\* generate_otp_file writes it; generate_hwrng_page and the pad manager's
\* _generate_*_pages return the symbols as they are, written by
\* generate_otp_file and by generate_pad_for_contact.  The file the two
\* scripts write ("w": what was there is replaced) is taken to be the pad
\* file the store reads.
write_page ==
    /\ gen.pc = "done"
    /\ LET k == get_contact_dir("alice", "bob")
       IN IF gen.path = "_generate_hwrng_pages"
          THEN /\ ~has_pad(k)
               /\ generate_pad_for_contact(k, <<gen.result>>)
          ELSE /\ cipher' = [cipher EXCEPT ![k] =
                                <<IF gen.path = "generate_random_page"
                                  THEN encode(gen.result) ELSE gen.result>>]
               /\ UNCHANGED <<usedf, info, ret, allocated>>
    /\ gen' = [gen EXCEPT !.pc = "written"]
    /\ UNCHANGED <<proc, net, chat, xferVars, relay>>

NextCodec ==
    \/ write_page
    \* a received pad whose only line does not exceed the id length
    \/ AdminImport(AdminContacts, {<<l>> : l \in SeqsUpTo({65}, PAGE_ID_LENGTH)})
    \/ HelperAllocate
    \/ AdminAllocate(AdminContacts)

SpecCodec == InitCodec /\ [][NextCodec]_vars

\* C32: an allocation (the decoding of the pad file's lines) never returns
\* a line of length <= 8 as a page, from a pad file that holds only such
\* lines it returns nothing, and the first allocation after
\* generate_random_page's page was written returns the original content,
\* with the first 8 symbols of that content as the page id.
C32_EncodeDecodeRoundTrip ==
    [][(ret' # ret /\ ret'.op = "alloc") =>
          LET k == <<"alice", "bob">>
          IN /\ ret'.found =>
                   /\ \E i \in 1..Len(cipher[k]) :
                         /\ Len(cipher[k][i]) > 8
                         /\ cipher[k][i] = ret'.id \o ret'.content
                   /\ Len(allocated'[k][Len(allocated'[k])]) > 8
             /\ (\A i \in 1..Len(cipher[k]) : Len(cipher[k][i]) <= 8) => ~ret'.found
             /\ (gen.pc = "written" /\ gen.path = "generate_random_page") =>
                   /\ allocated[k] = <<>> => ret'.found
                   /\ ret'.found =>
                         /\ ret'.content = gen.result
                         /\ ret'.id = SubSeq(gen.result, 1, 8)]_vars
C32_Witness ==
    /\ gen.pc = "written"
    /\ gen.path = "generate_random_page"
    /\ Len(gen.result) = MaxContent
    /\ \E i \in 1..PAGE_ID_LENGTH : gen.result[i] = 124
    /\ ret.op = "alloc"
    /\ ret.found
    /\ ret.content = gen.result
    /\ ret.id = SubSeq(gen.result, 1, 8)

\* C33: whatever the generation path, the page that was stored has as many
\* symbols as the configured page length plus the length of the id prefix.
C33_StoredPageLength ==
    gen.pc = "written" =>
        \A i \in 1..Len(cipher[<<"alice", "bob">>]) :
            Len(cipher[<<"alice", "bob">>][i]) = gen.length + PAGE_ID_LENGTH

(***************************************************************************)
(* The transfer ledger (shared_pages.json) of a device whose pad store is  *)
(* in use: transfers are recorded, the ledger file is lost, pads are       *)
(* generated and pages allocated, in any order.                            *)
(***************************************************************************)
\* record_shared_pages(contact_id, page_ids, direction) as the exchange
\* calls it after a transfer (direction 'sent' or 'received').
RecordShared ==
    /\ \E contact_id \in FrameContacts, direction \in {SentText, ReceivedText},
          page_ids \in {PageIds(pad) : pad \in FramePads} :
          /\ \A c \in DOMAIN shared[Offerer] :
                Len(shared[Offerer][c].shared_at) < MaxXfers
          /\ shared' = [shared EXCEPT
                           ![Offerer] = record_shared_pages(@, contact_id, page_ids,
                                                            direction)]
    /\ UNCHANGED <<storeVars, proc, net, chat, gen, relay, otp_file, used_pages, client, server,
                   sock, hist>>

\* shared_pages.json is removed or cannot be parsed any more:
\* load_shared_pages returns {} from then on.
LoseLedger ==
    /\ shared[Offerer] # <<>>
    /\ shared' = [shared EXCEPT ![Offerer] = <<>>]
    /\ UNCHANGED <<storeVars, proc, net, chat, gen, relay, otp_file, used_pages, client, server,
                   sock, hist>>

NextLedger ==
    \/ RecordShared
    \/ LoseLedger
    \/ AdminGenerate(AdminContacts, FramePads)
    \/ HelperAllocate
    \/ AdminAllocate(AdminContacts)

SpecLedger == Init /\ [][NextLedger]_vars

\* C34: a call of record_shared_pages keeps the entries of the other
\* contacts as they are, keeps the page ids and the summaries the named
\* contact had, and adds the new page ids and exactly one summary
\* {timestamp, count, direction} whose count is the number of those ids;
\* and what an allocation returns is given by the pad file and the
\* used-pages ledger alone, with the transfer ledger there or lost.
C34_TransferLedgerAppendOnly ==
    [][/\ (shared'[Offerer] # shared[Offerer] /\ shared'[Offerer] # <<>>) =>
             LET old == shared[Offerer]
                 new == shared'[Offerer]
             IN /\ DOMAIN old \subseteq DOMAIN new
                /\ \E c \in DOMAIN new :
                      LET ids == IF c \in DOMAIN old THEN old[c].page_ids ELSE <<>>
                          at == IF c \in DOMAIN old THEN old[c].shared_at ELSE <<>>
                      IN /\ DOMAIN new \ {c} \subseteq DOMAIN old
                         /\ \A o \in DOMAIN old \ {c} : new[o] = old[o]
                         /\ Len(new[c].page_ids) >= Len(ids)
                         /\ SubSeq(new[c].page_ids, 1, Len(ids)) = ids
                         /\ Len(new[c].shared_at) = Len(at) + 1
                         /\ SubSeq(new[c].shared_at, 1, Len(at)) = at
                         /\ DOMAIN new[c].shared_at[Len(at) + 1]
                               = {"timestamp", "count", "direction"}
                         /\ new[c].shared_at[Len(at) + 1].count
                               = Len(new[c].page_ids) - Len(ids)
       /\ (ret' # ret /\ ret'.op = "alloc") =>
             LET k == ret'.key
                 pages == get_pad_pages(cipher[k])
                 i == FirstUnused(pages, get_used_page_ids(usedf[k]))
             IN /\ ret'.found = (i # 0)
                /\ ret'.found => (ret'.id \o ret'.content = pages[i])]_vars
C34_Witness ==
    /\ DOMAIN shared[Offerer] = FrameContacts
    /\ Len(shared[Offerer]["bob"].shared_at) = 2
    /\ Len(shared[Offerer]["bob"].page_ids) = 3
    /\ ret.op = "alloc"
    /\ ret.found
    /\ Len(allocated[<<"alice", "bob">>]) = 2

(***************************************************************************)
(* The Offerer's chunked send of pages_data (the serialized batch and its  *)
(* sentinel) on a connection that stays up.  A chunk is the slice          *)
(* pages_data[from:to], written here as its two indices.                   *)
(***************************************************************************)
MaxChunks == 5      \* full chunks in the largest batch

CHUNK_SIZE == 4096

\* Variant of the slice that is one byte longer.
slice_one_more(sent, total_size) ==
    [from |-> sent,
     to |-> IF sent + CHUNK_SIZE + 1 < total_size THEN sent + CHUNK_SIZE + 1
            ELSE total_size]

\* pages_data[sent:sent + CHUNK_SIZE]
slice(sent, total_size) ==
    [from |-> sent,
     to |-> IF sent + CHUNK_SIZE < total_size THEN sent + CHUNK_SIZE ELSE total_size]

InitChunk ==
    /\ cipher = [k \in Keys |-> <<>>]
    /\ usedf = [k \in Keys |-> <<>>]
    /\ info = [k \in Keys |-> NoInfo]
    /\ ret = NoRet
    /\ allocated = [k \in Keys |-> <<>>]
    /\ Quiet
    /\ gen = GenOff
    /\ relay = RelayStart
    /\ otp_file = [d \in Devices |-> <<>>]
    /\ used_pages = [d \in Devices |-> <<>>]
    /\ shared = [d \in Devices |-> <<>>]
    \* total_size = len(pages_data): sizes around the multiples of CHUNK_SIZE,
    \* from the size of an empty batch with its sentinel
    /\ client \in {[ClientOff EXCEPT !.pc = "send_pages", !.total_size = n] :
                      n \in {c * CHUNK_SIZE + d : c \in 0..MaxChunks,
                                                  d \in {19, 2048, 4095, 4096}}}
    /\ server = [ServerOff EXCEPT !.pc = "recv_pages"]
    /\ sock = [SockClosed EXCEPT !.open = TRUE]
    /\ hist = NoHist

\* One turn of "while sent < total_size": sock.send(chunk), sent += len(chunk);
\* after the loop the Offerer waits for the reply.
send_chunk ==
    /\ client.pc = "send_pages"
    /\ IF client.sent < client.total_size
       THEN LET chunk == slice(client.sent, client.total_size)
            IN client' = [client EXCEPT !.chunks = Append(@, chunk),
                                        !.sent = @ + (chunk.to - chunk.from)]
       ELSE client' = [client EXCEPT !.pc = "wait_reply"]
    /\ UNCHANGED <<storeVars, proc, net, chat, gen, relay, otp_file, used_pages, shared, server,
                   sock, hist>>

NextChunk == send_chunk

\* The client thread runs: a turn of the loop that can be taken is taken.
SpecChunk == InitChunk /\ [][NextChunk]_vars /\ WF_vars(send_chunk)

\* C23: every chunk handed to sock.send has at least one and at most 4096
\* bytes; the chunks are consecutive slices of pages_data starting at its
\* first byte, so that together they are its first "sent" bytes, each once
\* and in order; when the loop is left they are all of pages_data; and the
\* loop is left, whatever the size.
C23_ChunksExactAndLoopEnds ==
    /\ [](\A i \in 1..Len(client.chunks) :
             /\ client.chunks[i].to - client.chunks[i].from >= 1
             /\ client.chunks[i].to - client.chunks[i].from <= 4096
             /\ client.chunks[i].from = (IF i = 1 THEN 0 ELSE client.chunks[i - 1].to))
    /\ [](client.sent = (IF client.chunks = <<>> THEN 0
                         ELSE client.chunks[Len(client.chunks)].to))
    /\ [](client.sent <= client.total_size)
    /\ [](client.pc = "wait_reply" => client.sent = client.total_size)
    /\ <>(client.pc = "wait_reply")
C23_Witness ==
    /\ client.pc = "wait_reply"
    /\ Len(client.chunks) = MaxChunks + 1
    /\ client.chunks[MaxChunks + 1].to - client.chunks[MaxChunks + 1].from = 19
    /\ client.sent = client.total_size


(***************************************************************************)
(* The voice relay (otp_relay_server_voice.py): a handler thread for each  *)
(* connection, the registry clients, the voice rooms and rooms_lock.       *)
(* A message is <<kind, argument>>.                                        *)
(***************************************************************************)

\* send_to_user(user_id, message) for each user of users: the socket is
\* looked up in clients and sendall is tried on it; the bytes arrive when
\* the peer still has the connection open, and a failure is logged only.
send_to_user(r, users, message) ==
    [r EXCEPT !.sent =
        [c \in 1..MaxConns |->
            IF /\ r.handler[c].open
               /\ \E user_id \in users :
                     user_id \in DOMAIN r.clients /\ r.clients[user_id] = c
            THEN message
            ELSE @[c]]]

create_room(r, room_id, creator) ==
    IF \E i \in DOMAIN r.voice_rooms : r.voice_rooms[i].room_id = room_id
    THEN send_to_user(r, {creator}, <<"ROOM|ERROR", room_id>>)
    ELSE send_to_user([r EXCEPT !.voice_rooms =
                          Append(@, [room_id |-> room_id,
                                     participants |-> {creator}])],
                      {creator}, <<"ROOM|CREATED", room_id>>)

join_room(r, room_id, user_id) ==
    LET found == {i \in DOMAIN r.voice_rooms : r.voice_rooms[i].room_id = room_id}
    IN IF found = {}
       THEN send_to_user(r, {user_id}, <<"ROOM|ERROR", room_id>>)
       ELSE LET i == CHOOSE j \in found : TRUE
                added == [r EXCEPT !.voice_rooms[i].participants = @ \cup {user_id}]
                salt == send_to_user(added, {user_id}, <<"ROOM|SALT", room_id>>)
                members == send_to_user(salt, {user_id}, <<"ROOM|MEMBERS", room_id>>)
            IN send_to_user(members,
                            added.voice_rooms[i].participants \ {user_id},
                            <<"ROOM|JOINED", user_id>>)

leave_room(r, room_id, user_id) ==
    LET found == {i \in DOMAIN r.voice_rooms : r.voice_rooms[i].room_id = room_id}
    IN IF found = {}
       THEN r
       ELSE LET i == CHOOSE j \in found : TRUE
                remaining == r.voice_rooms[i].participants \ {user_id}
            IN IF remaining = {}
               THEN [r EXCEPT !.voice_rooms =
                        SelectSeq(@, LAMBDA room : room.room_id # room_id)]
               ELSE send_to_user([r EXCEPT !.voice_rooms[i].participants = remaining],
                                 remaining, <<"ROOM|LEFT", user_id>>)

\* recipient_socket.sendall, and on its failure del clients[recipient_id];
\* without a recipient the sender is told that the recipient is offline.
route_text_message(r, sender_id, recipient_id) ==
    IF recipient_id \in DOMAIN r.clients
    THEN IF r.handler[r.clients[recipient_id]].open
         THEN [r EXCEPT !.sent[r.clients[recipient_id]] = <<"TEXT", sender_id>>]
         ELSE [r EXCEPT !.clients =
                  [user_id \in DOMAIN @ \ {recipient_id} |-> @[user_id]]]
    ELSE send_to_user(r, {sender_id}, <<"SYSTEM|offline", recipient_id>>)

\* handle, up to its loop (the server accepts the connections one after the
\* other): the user id is read from the new connection; an
\* empty id ends the handler (finally does nothing for it), an id that is in
\* clients is refused and the handler returns through finally, any other id
\* is registered.
handle(c, user_id) ==
    /\ relay.handler[c].pc = "idle"
    /\ \A b \in 1..(c - 1) : relay.handler[b].pc # "idle"
    /\ relay' =
          IF user_id = ""
          THEN [relay EXCEPT !.sent = [RelayStart.sent EXCEPT ![c] = <<"ERROR", "Invalid userID">>],
                             !.handler[c].pc = "closed"]
          ELSE IF user_id \in DOMAIN relay.clients
          THEN [relay EXCEPT !.sent = [RelayStart.sent EXCEPT
                                             ![c] = <<"ERROR", "UserID already taken">>],
                             !.handler[c].pc = "cleanup",
                             !.handler[c].user_id = user_id,
                             !.handler[c].open = TRUE,
                             !.handler[c].rejected = TRUE]
          ELSE [relay EXCEPT !.clients =
                                [u \in DOMAIN @ \cup {user_id} |->
                                    IF u = user_id THEN c ELSE @[u]],
                             !.sent = [RelayStart.sent EXCEPT
                                         ![c] = <<"OK", "Connected">>],
                             !.handler[c].pc = "loop",
                             !.handler[c].user_id = user_id,
                             !.handler[c].open = TRUE]
    /\ UNCHANGED <<storeVars, proc, net, chat, gen, xferVars>>

\* The loop of handle: data = client_socket.recv(65536); no data (the client
\* has closed) leaves the loop for finally, a message goes to
\* process_message.
handle_recv(c, data) ==
    /\ relay.handler[c].pc = "loop"
    /\ relay' =
          IF data = <<>>
          THEN [relay EXCEPT !.sent = RelayStart.sent,
                             !.handler[c].pc = "cleanup",
                             !.handler[c].open = FALSE]
          ELSE [relay EXCEPT !.sent = RelayStart.sent,
                             !.handler[c].pc = "process",
                             !.handler[c].message = data]
    /\ UNCHANGED <<storeVars, proc, net, chat, gen, xferVars>>

\* process_message of the relay: a room command and a voice frame take rooms_lock (the
\* thread waits while another holds it), a text message is routed without
\* it.  handle_voice_message checks the room under the lock, releases it and
\* calls broadcast_to_room.
relay_process_message(c) ==
    LET h == relay.handler[c]
        kind == h.message[1]
        arg == h.message[2]
        loop == [h EXCEPT !.pc = "loop", !.message = <<>>]
        r == [relay EXCEPT !.sent = RelayStart.sent]
    IN /\ h.pc = "process"
       /\ kind # "TEXT" => relay.rooms_lock = 0
       /\ relay' =
             IF kind = "TEXT"
             THEN [route_text_message(r, h.user_id, arg) EXCEPT !.handler[c] = loop]
             ELSE IF kind = "ROOM|CREATE"
             THEN [create_room(r, arg, h.user_id) EXCEPT !.handler[c] = loop]
             ELSE IF kind = "ROOM|JOIN"
             THEN [join_room(r, arg, h.user_id) EXCEPT !.handler[c] = loop]
             ELSE IF kind = "ROOM|LEAVE"
             THEN [leave_room(r, arg, h.user_id) EXCEPT !.handler[c] = loop]
             ELSE IF \E i \in DOMAIN relay.voice_rooms :
                        /\ relay.voice_rooms[i].room_id = arg
                        /\ h.user_id \in relay.voice_rooms[i].participants
             THEN [r EXCEPT !.handler[c] =
                      [h EXCEPT !.pc = "broadcast", !.room_id = arg,
                                !.message = <<"VOICE", h.user_id>>,
                                !.exclude = h.user_id, !.after = "loop"]]
             ELSE [r EXCEPT !.handler[c] = loop]
       /\ UNCHANGED <<storeVars, proc, net, chat, gen, xferVars>>

\* broadcast_to_room: "with rooms_lock" (threading.Lock: the thread waits
\* while the lock is held, by whichever thread) reads the participants, and
\* after the block each of them but exclude is sent the message.
broadcast_to_room(c) ==
    LET h == relay.handler[c]
        found == {i \in DOMAIN relay.voice_rooms :
                     relay.voice_rooms[i].room_id = h.room_id}
        participants == IF found = {} THEN {}
                        ELSE relay.voice_rooms[CHOOSE j \in found : TRUE].participants
    IN /\ h.pc = "broadcast"
       /\ relay.rooms_lock = 0
       /\ relay' = [send_to_user([relay EXCEPT !.sent = RelayStart.sent],
                                 participants \ {h.exclude}, h.message)
                       EXCEPT !.handler[c] =
                                 [h EXCEPT !.pc = h.after, !.message = <<>>,
                                           !.room_id = "", !.exclude = "",
                                           !.after = ""]]
       /\ UNCHANGED <<storeVars, proc, net, chat, gen, xferVars>>

\* cleanup_user_from_rooms, from taking rooms_lock to its release or to its
\* next call of broadcast_to_room: the rooms are visited in the order of the
\* dict; the user is taken out of each room that has it, a room left empty
\* is noted for deletion, and for a room that keeps participants
\* broadcast_to_room is called inside the "with rooms_lock" block.  After
\* the last room the noted rooms are deleted and the lock is released.
cleanup_user_from_rooms(c) ==
    LET h == relay.handler[c]
        rooms == relay.voice_rooms
        others(k) == rooms[k].participants \ {h.user_id}
        has(k) == h.user_id \in rooms[k].participants
        stops == {k \in (h.i + 1)..Len(rooms) : has(k) /\ others(k) # {}}
        last == IF stops = {} THEN Len(rooms)
                ELSE CHOOSE k \in stops : \A j \in stops : k <= j
        visited == [k \in DOMAIN rooms |->
                       IF k \in (h.i + 1)..last
                       THEN [rooms[k] EXCEPT !.participants = others(k)]
                       ELSE rooms[k]]
        rooms_to_delete == h.rooms_to_delete \cup
                              {rooms[k].room_id : k \in {j \in (h.i + 1)..last :
                                                            has(j) /\ others(j) = {}}}
    IN /\ h.pc = "cleanup"
       /\ h.i = 0 => relay.rooms_lock = 0
       /\ relay' =
             IF stops # {}
             THEN [relay EXCEPT
                      !.sent = RelayStart.sent,
                      !.voice_rooms = visited,
                      !.rooms_lock = c,
                      !.handler[c] =
                          [h EXCEPT !.pc = "broadcast", !.i = last,
                                    !.rooms_to_delete = rooms_to_delete,
                                    !.room_id = rooms[last].room_id,
                                    !.message = <<"ROOM|LEFT", h.user_id>>,
                                    !.exclude = h.user_id, !.after = "cleanup"]]
             ELSE [relay EXCEPT
                      !.sent = RelayStart.sent,
                      !.voice_rooms =
                          SelectSeq(visited,
                                    LAMBDA room : room.room_id \notin rooms_to_delete),
                      !.rooms_lock = 0,
                      !.handler[c] =
                          [h EXCEPT !.pc = "unregister", !.i = 0,
                                    !.rooms_to_delete = {}]]
       /\ UNCHANGED <<storeVars, proc, net, chat, gen, xferVars>>

\* The rest of finally: with clients_lock, del clients[user_id] when the id
\* is in clients; the handler ends and its socket is closed.
handle_finally(c) ==
    /\ relay.handler[c].pc = "unregister"
    /\ relay' = [relay EXCEPT
                    !.sent = RelayStart.sent,
                    !.clients = [user_id \in DOMAIN @ \ {relay.handler[c].user_id}
                                    |-> @[user_id]],
                    !.handler[c].pc = "closed",
                    !.handler[c].open = FALSE]
    /\ UNCHANGED <<storeVars, proc, net, chat, gen, xferVars>>

NextRelay ==
    \E c \in 1..MaxConns :
        \/ \E user_id \in {"", "alice", "bob"} : handle(c, user_id)
        \/ \E data \in {<<>>}
                 \cup {<<"TEXT", recipient_id>> : recipient_id \in {"alice", "bob"}}
                 \cup {<<kind, room_id>> :
                          kind \in {"ROOM|CREATE", "ROOM|JOIN", "ROOM|LEAVE", "VOICE"},
                          room_id \in {"r1", "r2"}} :
              handle_recv(c, data)
        \/ relay_process_message(c)
        \/ broadcast_to_room(c)
        \/ cleanup_user_from_rooms(c)
        \/ handle_finally(c)

SpecRelay == Init /\ [][NextRelay]_vars

\* Each handler is a thread of its own (ThreadingMixIn): a step of a handler
\* that can be taken is taken.  Connections and what the clients send are
\* not forced.
SpecRelayFair ==
    /\ SpecRelay
    /\ \A c \in 1..MaxConns :
          WF_vars(relay_process_message(c) \/ broadcast_to_room(c)
                     \/ cleanup_user_from_rooms(c) \/ handle_finally(c))

\* C38: a handler that has refused a user id because it is in clients
\* changes neither clients nor the voice rooms in any of its later steps:
\* the client that holds the id stays registered and stays in its rooms.
C38_DuplicateIdLeavesRegistration ==
    [][\A c \in 1..MaxConns :
          (relay.handler[c].rejected /\ relay'.handler[c] # relay.handler[c]) =>
              /\ relay'.clients = relay.clients
              /\ relay'.voice_rooms = relay.voice_rooms]_vars

\* C39: the cleanup of a disconnected user ends with the handler closed, a
\* held rooms_lock is released again, and a handler that is inside
\* process_message or broadcast_to_room gets on.
C39_DisconnectCleanupCompletes ==
    /\ \A c \in 1..MaxConns :
          relay.handler[c].pc \in {"cleanup", "unregister"}
             ~> relay.handler[c].pc = "closed"
    /\ relay.rooms_lock # 0 ~> relay.rooms_lock = 0
    /\ \A c \in 1..MaxConns :
          relay.handler[c].pc \in {"process", "broadcast"}
             ~> relay.handler[c].pc \notin {"process", "broadcast"}


=============================================================================
